---- MODULE Spec2Model ----
(***************************************************************************)
(* A model of the calendar data and layout code of rM-agenda-generator:    *)
(*   - ICalParser (src/src/utils/ical_parser.py): fetch_calendar and       *)
(*     get_events, with the recurrence expansion it asks of dateutil;      *)
(*   - PDFGenerator / generate_calendar_pdf (src/src/utils/pdf_generator.py)*)
(*     and the three places of the repository that call it.                *)
(*                                                                         *)
(* Time is counted in hours from 2024-01-01T00:00 (a Monday); a calendar   *)
(* day is counted in days from 2024-01-01.                                 *)
(***************************************************************************)
EXTENDS Integers, Sequences, FiniteSets, TLC

VARIABLES
    ical_url,       \* ICalParser.ical_url: "" when unset
    feed,           \* the components of the calendar the URL serves
    calendar,       \* ICalParser.calendar: [loaded, comps]; loaded = FALSE is None
    range_start,    \* get_events' start_date argument (a datetime, in hours)
    range_end,      \* get_events' end_date argument
    ret,            \* outcome of the last get_events call
    fetched,        \* what fetch_calendar did in the last get_events call
    view_type,      \* PDFPreviewView.view_type / PDFPreviewScreen.current_view
    current_date,   \* the screens' current_date, a day
    include_months, \* PDFPreviewView.include_months
    include_weeks,  \* PDFPreviewView.include_weeks
    include_days,   \* PDFPreviewView.include_days
    pdf_events,     \* the events an outside caller of generate_calendar_pdf holds
    pdf_weather,    \* the weather that caller holds
    pdf_tasks,      \* the tasks that caller holds
    doc,            \* outcome of the last generate_calendar_pdf call
    generator,      \* the PDFGenerator the last call built
    selected_tablet,    \* RemarkableAgendaApp.selected_tablet
    supports_color,     \* RemarkableAgendaApp.supports_color
    dimensions,         \* RemarkableAgendaApp.dimensions
    app_tablet_model,   \* the running app's tablet_model attribute, if it has one
    weather_configured, \* WeatherAPI: api_key and location are both set
    datetime_now,       \* datetime.now(), in hours
    cache,              \* WeatherAPI.cache: day -> [timestamp, data]
    cache_file,         \* weather_cache.json: [exists, text]
    last_forecast,      \* the last get_forecast call that returned
    wthreads,           \* the threads inside get_forecast: [pc, date, data]
    preview,            \* what PDFPreviewScreen.preview_area shows
    current_preview_path,   \* PDFPreviewScreen.current_preview_path
    preview_files,      \* the preview files that exist
    pthreads,           \* the preview threads started, in order
    clock,              \* the callbacks Clock.schedule_once holds, in order
    requests,           \* the number of update_preview calls so far
    preview_importable, \* utils.pdf_generator defines generate_preview_image
    popup,              \* the popups of PDFPreviewScreen.generate_pdf
    gthreads,           \* the generation threads started, in order
    config,             \* ConfigManager: config['calendars'], config.json, last call
    calendar_view       \* CalendarView: current_view, the views' dates, last call

icalVars == <<ical_url, feed, calendar, range_start, range_end, ret, fetched>>

\* what a caller of generate_calendar_pdf holds
callerVars == <<view_type, current_date, include_months, include_weeks,
                include_days, pdf_events, pdf_weather, pdf_tasks>>

\* what the toggles of the screen leave alone
builtVars == <<pdf_events, pdf_weather, pdf_tasks, doc, generator>>

docVars == <<view_type, current_date, include_months, include_weeks,
             include_days, pdf_events, pdf_weather, pdf_tasks, doc, generator>>

appVars == <<selected_tablet, supports_color, dimensions, app_tablet_model>>

weatherVars == <<weather_configured, datetime_now, cache, cache_file,
                 last_forecast, wthreads>>

popupVars == <<popup, gthreads>>

previewVars == <<preview, current_preview_path, preview_files, pthreads, clock,
                 requests, preview_importable, popupVars>>

\* what the operations of one component leave alone
outsideICal == <<docVars, appVars, weatherVars, previewVars, config,
                 calendar_view>>
outsideDoc == <<icalVars, appVars, weatherVars, previewVars, config,
                calendar_view>>
outsideApp == <<icalVars, docVars, weatherVars, previewVars, config,
                calendar_view>>
outsideWeather == <<icalVars, docVars, appVars, previewVars, config,
                    calendar_view>>
outsidePreview == <<icalVars, appVars, weatherVars, include_months,
                    include_weeks, include_days, builtVars, config,
                    calendar_view>>
outsideConfig == <<icalVars, docVars, appVars, weatherVars, previewVars,
                   calendar_view>>
outsideCalendarView == <<icalVars, docVars, appVars, weatherVars, previewVars,
                         config>>

vars == <<ical_url, feed, calendar, range_start, range_end, ret, fetched,
          view_type, current_date, include_months, include_weeks,
          include_days, pdf_events, pdf_weather, pdf_tasks, doc, generator,
          selected_tablet, supports_color, dimensions, app_tablet_model,
          weather_configured, datetime_now, cache, cache_file, last_forecast, wthreads,
          preview, current_preview_path, preview_files, pthreads, clock,
          requests, preview_importable, popup, gthreads, config,
          calendar_view>>

----------------------------------------------------------------------------
(* Bounds of the model *)

\* days (from 2024-01-01) on which the enumerated events start and end
MaxDay == 1

\* the clock of the weather runs from 2024-01-01T12:00 to MaxClock o'clock in
\* steps of TickHours
MaxClock == 21
TickHours == 3

\* update_preview and generate_pdf calls in one behaviour
MaxRequests == 2

\* previous_period and next_period calls in one behaviour
MaxPeriods == 4

(* Program constants *)

HoursPerDay == 24
DaysPerWeek == 7
\* an event without DTEND lasts one hour
DefaultDurationHours == 1

----------------------------------------------------------------------------
(* Python values of DTSTART / DTEND *)

\* a datetime.datetime, v in hours
DateTime(h) == [k |-> "datetime", v |-> h]
\* a datetime.date, v in days
Date(d) == [k |-> "date", v |-> d]
\* component.get(...) returned None
NoValue == [k |-> "none", v |-> 0]

\* isinstance(x, datetime)
IsDateTime(x) == x.k = "datetime"

\* datetime.combine(d, datetime.min.time()): midnight of the day d
CombineMidnight(d) == DateTime(d.v * HoursPerDay)

(* Recurrence rules: freq "" is no RRULE, freq "BAD" is a rule text that    *)
(* rrulestr cannot parse; count 0 and until -1 stand for an absent part.    *)
Rule(f, i, c, u) == [freq |-> f, interval |-> i, count |-> c, until |-> u]
NoRule == Rule("", 1, 0, -1)
BadRule == Rule("BAD", 1, 0, -1)

\* if rrule: (a vRecur is truthy when it has any part)
HasRule(c) == c.rrule.freq # ""

Component(n, s, ds, de, r) ==
    [name |-> n, summary |-> s, dtstart |-> ds, dtend |-> de, rrule |-> r]

----------------------------------------------------------------------------
(* ICalParser.get_events, one component *)

\* lines 64-73: the event's start, a datetime (all-day dates become midnight)
EventStart(c) ==
    IF IsDateTime(c.dtstart) THEN c.dtstart ELSE CombineMidnight(c.dtstart)

\* lines 68-69
EventAllDay(c) == ~IsDateTime(c.dtstart)

\* lines 75-81: the event's end; a date is converted only for an all-day event
EventEnd(c) ==
    IF c.dtend.k = "none"
    THEN DateTime(EventStart(c).v + DefaultDurationHours)
    ELSE IF ~IsDateTime(c.dtend) /\ EventAllDay(c)
         THEN CombineMidnight(c.dtend)
         ELSE c.dtend

\* hours between two occurrences of the rule
PeriodHours(r) ==
    IF r.freq = "WEEKLY"
    THEN r.interval * DaysPerWeek * HoursPerDay
    ELSE r.interval * HoursPerDay

\* InRule with UNTIL compared by calendar day instead of by instant
InRule_UntilByDay(r, t, k) ==
    /\ (r.count = 0 \/ k < r.count)
    /\ (r.until = -1 \/ t \div HoursPerDay <= r.until \div HoursPerDay)

\* dateutil: the k-th instant (k = 0, 1, ...) belongs to the rule when it is
\* among the first COUNT and not after UNTIL
InRule(r, t, k) ==
    /\ (r.count = 0 \/ k < r.count)
    /\ (r.until = -1 \/ t <= r.until)

\* rule.between(after, before): inc defaults to False, so both ends are excluded
Between(t, after, before) == after < t /\ t < before

\* line 90: the instants of rrulestr(rule_text, dtstart=start).between(rs, re),
\* in ascending order
RECURSIVE RuleBetween(_, _, _, _, _)
RuleBetween(r, start, k, rs, re) ==
    LET t == start + k * PeriodHours(r)
    IN  IF t >= re \/ ~InRule(r, t, k)
        THEN <<>>
        ELSE (IF Between(t, rs, re) THEN <<t>> ELSE <<>>)
             \o RuleBetween(r, start, k + 1, rs, re)

\* RecurringEnd keeping the original end instant instead of the duration
RecurringEnd_OriginalEnd(t, start, end) == end.v

\* lines 92-94: the end of the copy is the instant plus the event's duration
RecurringEnd(t, start, end) == t + (end.v - start.v)

\* lines 91-95: the copy of the event moved to a recurrence instant.
\* src is a history field: the position of the component in the calendar.

RecurringEvent(c, i, t) ==
    [summary |-> c.summary, all_day |-> EventAllDay(c), src |-> i,
     start |-> DateTime(t),
     end |-> DateTime(RecurringEnd(t, EventStart(c), EventEnd(c)))]

\* lines 56-61, 66-81: the event dictionary of a one-time event
OneTimeEvent(c, i) ==
    [summary |-> c.summary, all_day |-> EventAllDay(c), src |-> i,
     start |-> EventStart(c), end |-> EventEnd(c)]

\* line 98: start_date <= start <= end_date or start_date <= end <= end_date
InRange(s, e, rs, re) == (rs <= s /\ s <= re) \/ (rs <= e /\ e <= re)

\* lines 53-99 for one component: [exc, out]; exc "" when nothing was raised
Processed(e, o) == [exc |-> e, out |-> o]

ProcessComponent(c, i, rs, re) ==
    IF c.name # "VEVENT" THEN Processed("", <<>>)
    ELSE IF c.dtstart.k = "none" THEN Processed("", <<>>)
    ELSE IF HasRule(c)
    THEN IF c.rrule.freq = "BAD"
         THEN Processed("ValueError", <<>>)
         ELSE LET ts == RuleBetween(c.rrule, EventStart(c).v, 0, rs, re)
              IN  IF ts = <<>> THEN Processed("", <<>>)
                  \* line 92: date - datetime raises TypeError
                  ELSE IF ~IsDateTime(EventEnd(c))
                       THEN Processed("TypeError", <<>>)
                       ELSE Processed("",
                                [j \in 1..Len(ts) |-> RecurringEvent(c, i, ts[j])])
    ELSE LET s == EventStart(c).v
         IN  IF rs <= s /\ s <= re
             THEN Processed("", <<OneTimeEvent(c, i)>>)
             \* line 98: datetime <= date raises TypeError
             ELSE IF ~IsDateTime(EventEnd(c))
                  THEN Processed("TypeError", <<>>)
                  ELSE IF InRange(s, EventEnd(c).v, rs, re)
                       THEN Processed("", <<OneTimeEvent(c, i)>>)
                       ELSE Processed("", <<>>)

\* lines 51-101: the loop over the components; an exception ends the call
RECURSIVE WalkFrom(_, _, _, _, _)
WalkFrom(comps, i, rs, re, acc) ==
    IF i > Len(comps)
    THEN [kind |-> "list", events |-> acc, exc |-> ""]
    ELSE LET p == ProcessComponent(comps[i], i, rs, re)
         IN  IF p.exc # ""
             THEN [kind |-> "raise", events |-> <<>>, exc |-> p.exc]
             ELSE WalkFrom(comps, i + 1, rs, re, acc \o p.out)

Walk(comps, rs, re) == WalkFrom(comps, 1, rs, re, <<>>)

NoReturn == [kind |-> "none", events |-> <<>>, exc |-> ""]
EmptyList == [kind |-> "list", events |-> <<>>, exc |-> ""]
NoCalendar == [loaded |-> FALSE, comps |-> <<>>]

----------------------------------------------------------------------------
(* The enumerated inputs *)

Hours == {0, 9}
Instants == {d * HoursPerDay + h : d \in 0..MaxDay, h \in Hours}

\* 2024-01-08T09:00, 2024-01-10T00:00 and 2024-01-31T00:00
Jan8At9 == 7 * HoursPerDay + 9
Jan10 == 9 * HoursPerDay
Jan31 == 30 * HoursPerDay

FiveWeeks == 5 * DaysPerWeek * HoursPerDay

Rules ==
    { NoRule, BadRule,
      Rule("DAILY", 1, 0, -1), Rule("DAILY", 2, 0, -1), Rule("DAILY", 1, 2, -1),
      Rule("DAILY", 1, 0, HoursPerDay), Rule("WEEKLY", 1, 4, -1) }

TimedComponents ==
    { Component("VEVENT", "A", DateTime(s), e, r) :
        s \in Instants,
        e \in {DateTime(t) : t \in Instants} \cup {NoValue},
        r \in Rules }

AllDayComponents ==
    { Component("VEVENT", "A", Date(d), e, r) :
        d \in 0..MaxDay,
        e \in {NoValue, Date(1), DateTime(HoursPerDay + 9)},
        r \in {NoRule, Rule("DAILY", 1, 0, -1)} }

\* DTSTART a datetime and DTEND a date
MixedComponents ==
    { Component("VEVENT", "A", DateTime(s), Date(1), r) :
        s \in Hours, r \in {NoRule, Rule("DAILY", 1, 0, -1)} }

\* FREQ=DAILY;UNTIL=2024-01-10T00:00:00 from 2024-01-08T09:00, one hour long
UntilScenario ==
    Component("VEVENT", "A", DateTime(Jan8At9), NoValue,
              Rule("DAILY", 1, 0, Jan10))

OtherComponents ==
    { Component("VTIMEZONE", "A", NoValue, NoValue, NoRule),
      Component("VEVENT", "A", NoValue, DateTime(9), NoRule),
      UntilScenario }

Components ==
    TimedComponents \cup AllDayComponents \cup MixedComponents
        \cup OtherComponents

\* a well-formed one-time event from 00:00 to 09:00 on 2024-01-01
GoodEvent == Component("VEVENT", "B", DateTime(0), DateTime(9), NoRule)

Calendars ==
    {<<c>> : c \in Components}
        \cup {<<c, GoodEvent>> : c \in Components}
        \cup {<<GoodEvent, c>> : c \in Components}

RangeStarts == Instants
RangeEnds == Instants \cup {t + FiveWeeks : t \in Instants} \cup {Jan31}

----------------------------------------------------------------------------
(* ICalParser *)

\* __init__ with a URL; the caller's query range is fixed for the behaviour
InitICal ==
    /\ ical_url = "url"
    /\ feed \in Calendars
    /\ calendar = NoCalendar
    /\ range_start \in RangeStarts
    /\ range_end \in {e \in RangeEnds : range_start <= e}
    /\ ret = NoReturn
    /\ fetched = "not called"

\* set_ical_url(url)
set_ical_url(url) ==
    /\ ical_url' = url
    /\ calendar' = NoCalendar
    /\ UNCHANGED <<feed, range_start, range_end, ret, fetched>>
    /\ UNCHANGED outsideICal

\* fetch_calendar(): net is what the request and the parse of the reply do;
\* a calendar that was parsed is taken to hold properties, so that it is true
FetchResult(net) == IF ical_url = "" THEN "no url" ELSE net

FetchOk(net) == FetchResult(net) = "ok"

\* a fetch that is tried once only
NeedsFetch_Once == ~calendar.loaded /\ fetched = "not called"

\* get_events: `if not self.calendar`
NeedsFetch == ~calendar.loaded

\* get_events(range_start, range_end)
get_events(net) ==
    /\ fetched' = IF NeedsFetch THEN FetchResult(net) ELSE "not called"
    /\ IF NeedsFetch /\ ~FetchOk(net)
       THEN /\ ret' = EmptyList
            /\ UNCHANGED calendar
       ELSE /\ calendar' = IF calendar.loaded \/ ~NeedsFetch THEN calendar
                           ELSE [loaded |-> TRUE, comps |-> feed]
            /\ ret' = Walk(calendar'.comps, range_start, range_end)
    /\ UNCHANGED <<ical_url, feed, range_start, range_end>>
    /\ UNCHANGED outsideICal

NextICal ==
    \/ \E url \in {"", "url"} : set_ical_url(url)
    \/ \E net \in {"ok", "RequestException", "ValueError"} : get_events(net)

\* the parser is not used
IdleICal ==
    /\ ical_url = ""
    /\ feed = <<>>
    /\ calendar = NoCalendar
    /\ range_start = 0
    /\ range_end = 0
    /\ ret = NoReturn
    /\ fetched = "not called"

----------------------------------------------------------------------------
(* Dates: a day is its number of days from 2024-01-01, a Monday *)

IsLeap(y) == (y % 4 = 0 /\ y % 100 # 0) \/ y % 400 = 0

DaysInYear(y) == IF IsLeap(y) THEN 366 ELSE 365

DaysInMonth(y, m) ==
    IF m = 2 THEN (IF IsLeap(y) THEN 29 ELSE 28)
    ELSE IF m \in {4, 6, 9, 11} THEN 30 ELSE 31

RECURSIVE DaysBeforeMonth(_, _)
DaysBeforeMonth(y, m) ==
    IF m = 1 THEN 0 ELSE DaysBeforeMonth(y, m - 1) + DaysInMonth(y, m - 1)

RECURSIVE DaysBeforeYear(_)
DaysBeforeYear(y) ==
    IF y <= 2024 THEN 0 ELSE DaysBeforeYear(y - 1) + DaysInYear(y - 1)

\* the day number of the date y-m-d
Ordinal(y, m, d) == DaysBeforeYear(y) + DaysBeforeMonth(y, m) + d - 1

Years == 2024..2025

\* date.year and date.month
YearOf(n) ==
    CHOOSE y \in Years :
        DaysBeforeYear(y) <= n /\ n < DaysBeforeYear(y) + DaysInYear(y)

MonthOf(n) ==
    LET y == YearOf(n)
        k == n - DaysBeforeYear(y)
    IN  CHOOSE m \in 1..12 :
            DaysBeforeMonth(y, m) <= k /\ k < DaysBeforeMonth(y, m) + DaysInMonth(y, m)

\* a week that starts on Sunday
Weekday_SundayFirst(n) == (n + 1) % DaysPerWeek

\* date.weekday(): Monday is 0
Weekday(n) == n % DaysPerWeek

\* a month grid that starts its weeks on Sunday
MonthCalendar_SundayFirst(y, m) ==
    LET w == (Weekday(Ordinal(y, m, 1)) + 1) % DaysPerWeek
        n == DaysInMonth(y, m)
        weeks == (w + n + DaysPerWeek - 1) \div DaysPerWeek
    IN  [r \in 1..weeks |->
            [c \in 1..DaysPerWeek |->
                LET d == (r - 1) * DaysPerWeek + c - w
                IN  IF d >= 1 /\ d <= n THEN d ELSE 0]]

\* calendar.monthcalendar(year, month): the weeks of the month, Monday first,
\* with 0 for the days of a week that are outside the month
MonthCalendar(y, m) ==
    LET w == Weekday(Ordinal(y, m, 1))
        n == DaysInMonth(y, m)
        weeks == (w + n + DaysPerWeek - 1) \div DaysPerWeek
    IN  [r \in 1..weeks |->
            [c \in 1..DaysPerWeek |->
                LET d == (r - 1) * DaysPerWeek + c - w
                IN  IF d >= 1 /\ d <= n THEN d ELSE 0]]

----------------------------------------------------------------------------
(* Python values passed to generate_calendar_pdf *)

\* t is the type: "none", "str", "datetime", "bool", "tuple", "dict", "list".
\* A str has its text in s, a datetime its day in v, a dict of events its
\* items in dict (keyed by the day the key "%Y-%m-%d" names), a list of
\* events its items in list.
Arg(t, v, s, d, l) == [t |-> t, v |-> v, s |-> s, dict |-> d, list |-> l]

NoneArg == Arg("none", 0, "", <<>>, <<>>)
StrArg(s) == Arg("str", 0, s, <<>>, <<>>)
DayArg(n) == Arg("datetime", n, "", <<>>, <<>>)
OtherArg(t) == Arg(t, 0, "", <<>>, <<>>)
DictArg(d) == Arg("dict", 0, "", d, <<>>)
ListArg(l) == Arg("list", 0, "", <<>>, l)

\* if events:
Truthy(ev) ==
    \/ ev.t = "dict" /\ DOMAIN ev.dict # {}
    \/ ev.t = "list" /\ ev.list # <<>>
    \/ ev.t \in {"str", "datetime", "tuple", "forecast"}

\* date_key in events
KeyIn(ev, k) == ev.t = "dict" /\ k \in DOMAIN ev.dict

\* event['start'].hour
HourOf(e) == e.start.v % HoursPerDay

Summaries(events) == [j \in 1..Len(events) |-> events[j].summary]

\* a forecast dict {'temperature', 'condition', 'icon'}; temperature is the
\* text an f-string makes of the value
Forecast(c, t) == [none |-> FALSE, condition |-> c, temperature |-> t]
\* None where a forecast is expected
NoForecast == [none |-> TRUE, condition |-> "", temperature |-> ""]
\* weather_api.py lines 69-73: the placeholder beyond the forecast horizon
Unavailable == Forecast("Forecast unavailable", "None")

\* a forecast dict passed as an argument
ForecastArg(f) == Arg("forecast", 0, "", <<>>, <<f>>)

----------------------------------------------------------------------------
(* RemarkableAgendaApp (src/src/app.py): the selected tablet *)

\* None, and an attribute the object does not have
NoneId == "<None>"
NoAttribute == "<no attribute>"

KnownDevices == {"reMarkable 1", "reMarkable 2", "Paper Pro"}

\* the tablet models in use: the three the code names, one it does not,
\* the empty string and None
DeviceIds == KnownDevices \cup {"Kindle", "", NoneId}

Dimensions(w, h, dpi) == [width_pt |-> w, height_pt |-> h, dpi |-> dpi]

\* get_dimensions(tablet_model): selected is self.selected_tablet
get_dimensions(tablet_model, selected) ==
    LET tm == IF tablet_model # NoneId THEN tablet_model
              ELSE IF selected \in {NoneId, ""} THEN "reMarkable 2"
              ELSE selected
    IN  IF tm = "reMarkable 1" THEN Dimensions(595, 842, 226)
        ELSE IF tm = "reMarkable 2" THEN Dimensions(595, 842, 226)
        ELSE IF tm = "Paper Pro" THEN Dimensions(612, 792, 300)
        ELSE Dimensions(595, 842, 226)

\* __init__
InitApp ==
    /\ selected_tablet = NoneId
    /\ supports_color = FALSE
    /\ dimensions = get_dimensions("reMarkable 2", NoneId)

\* select_tablet(tablet_model)
select_tablet(tablet_model) ==
    /\ selected_tablet' = tablet_model
    /\ supports_color' = (tablet_model = "Paper Pro")
    /\ dimensions' = get_dimensions(tablet_model, selected_tablet')
    /\ UNCHANGED app_tablet_model
    /\ UNCHANGED outsideApp

\* the app of the repository: nothing gives it an attribute tablet_model
IdleApp == InitApp /\ app_tablet_model = NoAttribute

----------------------------------------------------------------------------
(* PDFGenerator. In __init__ the font and style registration is taken to   *)
(* succeed; the page size does not change what the layouts put in their    *)
(* cells.                                                                  *)

\* reportlab's portrait(pagesize)
portrait(size) == IF size[1] > size[2] THEN <<size[2], size[1]>> ELSE size

\* an unknown model laid out on a US Letter page
_get_tablet_specs_LetterDefault(tablet_model) ==
    LET tm == IF tablet_model \in {NoneId, ""} THEN "reMarkable 2"
              ELSE tablet_model
    IN  [tablet_model |-> tm,
         page_size |-> IF tm \in KnownDevices THEN portrait(<<595, 842>>)
                       ELSE portrait(<<612, 792>>),
         supports_color |-> tm = "Paper Pro"]

\* _get_tablet_specs(): tablet_model is self.tablet_model; the result is the
\* generator's tablet_model, page_size and supports_color
_get_tablet_specs(tablet_model) ==
    LET tm == IF tablet_model \in {NoneId, ""} THEN "reMarkable 2"
              ELSE tablet_model
    IN  [tablet_model |-> tm,
         page_size |-> IF tm = "reMarkable 1" THEN portrait(<<595, 842>>)
                       ELSE IF tm = "reMarkable 2" THEN portrait(<<595, 842>>)
                       ELSE IF tm = "Paper Pro" THEN portrait(<<595, 842>>)
                       ELSE portrait(<<595, 842>>),
         supports_color |-> tm = "Paper Pro"]

\* PDFGenerator(): app.tablet_model if hasattr(app, 'tablet_model')
\* else "reMarkable 2"
PDFGenerator ==
    _get_tablet_specs(IF app_tablet_model = NoAttribute THEN "reMarkable 2"
                      ELSE app_tablet_model)

NoGenerator == [tablet_model |-> "", page_size |-> <<0, 0>>, supports_color |-> FALSE]

\* range(8, 21)
FirstHour == 8
HourStop == 21
HourRows == FirstHour..(HourStop - 1)

\* a rendered view; first is the day the file name carries: the first of the
\* month, the Monday of the week, or the day
Page(v, f, g, r, s) ==
    [view |-> v, first |-> f, grid |-> g, rows |-> r, schedule |-> s,
     header |-> <<>>, weather |-> <<>>, tasks |-> <<>>]

\* _get_events_for_day(events, year, month, day)
_get_events_for_day(ev, y, m, d) ==
    IF KeyIn(ev, Ordinal(y, m, d))
    THEN Summaries(ev.dict[Ordinal(y, m, d)])
    ELSE <<>>

\* generate_month_calendar: a cell is the day number (0 for the empty text)
\* and the lines under it
MonthCell(ev, y, m, d) ==
    [day |-> d,
     lines |-> IF d # 0 /\ Truthy(ev) THEN _get_events_for_day(ev, y, m, d) ELSE <<>>]

generate_month_calendar(y, m, ev) ==
    LET cal == MonthCalendar(y, m)
    IN  Page("month", Ordinal(y, m, 1),
             [r \in 1..Len(cal) |->
                 [c \in 1..DaysPerWeek |-> MonthCell(ev, y, m, cal[r][c])]],
             <<>>, <<>>)

\* WeekCell with an event in the row of its start hour and in every later row
WeekCell_FromStartHour(ev, day, hour) ==
    IF Truthy(ev) /\ KeyIn(ev, day)
    THEN Summaries(SelectSeq(ev.dict[day], LAMBDA e : HourOf(e) <= hour))
    ELSE <<>>

\* generate_week_calendar, lines 239-247: the text of the cell of one day
\* and one hour
WeekCell(ev, day, hour) ==
    IF Truthy(ev) /\ KeyIn(ev, day)
    THEN Summaries(SelectSeq(ev.dict[day], LAMBDA e : HourOf(e) = hour))
    ELSE <<>>

\* generate_week_calendar, lines 216-225: a cell of the date row is the date
\* and, under it, the condition and the temperature
DateCell(weather, day) ==
    [day |-> day,
     weather |-> IF Truthy(weather) /\ KeyIn(weather, day)
                      /\ ~weather.dict[day].none
                 THEN <<weather.dict[day].condition,
                        weather.dict[day].temperature>>
                 ELSE <<>>]

generate_week_calendar(start_date, ev, weather) ==
    [Page("week", start_date, <<>>,
          [h \in HourRows |->
              [c \in 1..DaysPerWeek |-> WeekCell(ev, start_date + c - 1, h)]],
          <<>>)
     EXCEPT !.header =
         [c \in 1..DaysPerWeek |-> DateCell(weather, start_date + c - 1)]]

\* DayRow with every event of the hour in the row
DayRow_AllEvents(list, hour) ==
    Summaries(SelectSeq(list, LAMBDA e : HourOf(e) = hour))

\* DayRow with the last event of the hour instead of the first
DayRow_LastEvent(list, hour) ==
    LET at == SelectSeq(list, LAMBDA e : HourOf(e) = hour)
    IN  IF at = <<>> THEN <<>> ELSE <<at[Len(at)].summary>>

\* generate_day_calendar, lines 342-353: the event text of one hour row
DayRow(list, hour) ==
    LET at == SelectSeq(list, LAMBDA e : HourOf(e) = hour)
    IN  IF at = <<>> THEN <<>> ELSE <<at[1].summary>>

\* range(10)
EmptyTaskRows == 10

\* a checklist without the placeholder rows
TaskRows_NoPlaceholders(tasks) ==
    IF Truthy(tasks) /\ Len(tasks.list) > 0 THEN tasks.list ELSE <<>>

\* generate_day_calendar, lines 389-420: the texts beside the checkboxes
TaskRows(tasks) ==
    IF Truthy(tasks) /\ Len(tasks.list) > 0
    THEN tasks.list
    ELSE [j \in 1..EmptyTaskRows |-> ""]

\* lines 317-325 ask the weather for 'condition' and 'temperature'
generate_day_calendar(date, ev, weather, tasks) ==
    [Page("day", date, <<>>, <<>>,
          [h \in HourRows |-> IF Truthy(ev) THEN DayRow(ev.list, h) ELSE <<>>])
     EXCEPT !.weather = IF Truthy(weather)
                        THEN <<weather.list[1].condition,
                               weather.list[1].temperature>>
                        ELSE <<>>,
            !.tasks = TaskRows(tasks)]

----------------------------------------------------------------------------
(* generate_calendar_pdf *)

Raised(e) == [kind |-> "raise", exc |-> e, pages |-> <<>>]
Pdf(pages) == [kind |-> "pdf", exc |-> "", pages |-> pages]

\* line 450: def generate_calendar_pdf(view_type, output_path, date=None,
\*                                     events=None, weather=None, tasks=None)
Params == <<"view_type", "output_path", "date", "events", "weather", "tasks">>
Required == {"view_type", "output_path"}

ParamIndex(name) == CHOOSE i \in DOMAIN Params : Params[i] = name

\* a call: the positional arguments and the keyword arguments
Call(pos, kw) == [positional |-> pos, keywords |-> kw]

\* Python raises TypeError for a call the signature cannot bind
Unbindable(call) ==
    \/ Len(call.positional) > Len(Params)
    \/ \E k \in DOMAIN call.keywords :
          \/ \A i \in DOMAIN Params : Params[i] # k
          \/ \E i \in 1..Len(call.positional) :
                i \in DOMAIN Params /\ Params[i] = k
    \/ \E r \in Required :
          ParamIndex(r) > Len(call.positional) /\ r \notin DOMAIN call.keywords

\* the value a bindable call gives the parameter
Bound(call, name) ==
    IF ParamIndex(name) <= Len(call.positional)
    THEN call.positional[ParamIndex(name)]
    ELSE IF name \in DOMAIN call.keywords THEN call.keywords[name]
    ELSE NoneArg

\* lines 465-479; now is the day datetime.now() gives. An attribute of a
\* datetime asked of another value raises AttributeError; the day view
\* indexes each item of events with 'start', which a dict's str keys refuse.
\* The day view asks a true weather for weather['condition'], a KeyError
\* when the dict is keyed by dates.
Body(vt, date, ev, weather, tasks, now) ==
    LET d == IF date.t = "none" THEN DayArg(now) ELSE date
    IN  IF vt.t = "str" /\ vt.s \in {"month", "week", "day"}
        THEN IF d.t # "datetime" THEN Raised("AttributeError")
             ELSE IF vt.s = "month"
                  THEN Pdf(<<generate_month_calendar(YearOf(d.v), MonthOf(d.v), ev)>>)
             ELSE IF vt.s = "week"
                  THEN Pdf(<<generate_week_calendar(d.v - Weekday(d.v), ev,
                                                    weather)>>)
             ELSE IF Truthy(weather) /\ weather.t # "forecast"
                  THEN Raised(IF weather.t = "dict" THEN "KeyError"
                              ELSE "TypeError")
             ELSE IF Truthy(ev) /\ ev.t # "list"
                  THEN Raised("TypeError")
                  ELSE Pdf(<<generate_day_calendar(d.v, ev, weather, tasks)>>)
        ELSE Raised("ValueError")

\* line 468: every call the signature binds builds a generator
Construct(call) == IF Unbindable(call) THEN generator ELSE PDFGenerator

GenerateCalendarPdf(call, now) ==
    IF Unbindable(call) THEN Raised("TypeError")
    ELSE Body(Bound(call, "view_type"), Bound(call, "date"),
              Bound(call, "events"), Bound(call, "weather"),
              Bound(call, "tasks"), now)

----------------------------------------------------------------------------
(* The enumerated inputs of the document builder *)

\* events of one day in one list
MaxEventsPerDay == 2

\* 2024-01-01 (a Monday) and 2024-01-03
AnchorDays == {0, 2}

PdfEvent(day, hour, summary) ==
    [summary |-> summary, start |-> DateTime(day * HoursPerDay + hour)]

DayEvents(day) ==
    {PdfEvent(day, 9, "A"), PdfEvent(day, 9, "B"), PdfEvent(day, 10, "A")}

EventLists(day) ==
    UNION {[1..n -> DayEvents(day)] : n \in 0..MaxEventsPerDay}

EventArgs ==
    {NoneArg}
        \cup {DictArg(0 :> l) : l \in EventLists(0)}
        \cup {DictArg(0 :> l @@ 1 :> <<PdfEvent(1, 9, "B")>>) : l \in EventLists(0)}
        \cup {ListArg(l) : l \in EventLists(0)}

ViewTypes == {"month", "week", "day"}

\* events of one day in a month cell: more than the cell has lines for
MaxCellEvents == 9

CrowdedDay == [j \in 1..MaxCellEvents |-> PdfEvent(0, 9, "A")]

\* an event with its end: it lasts the given number of hours
TimedEvent(day, hour, hours, summary) ==
    [summary |-> summary, start |-> DateTime(day * HoursPerDay + hour),
     end |-> DateTime(day * HoursPerDay + hour + hours)]

\* a day with an event before the first row, a long and a short event that
\* start in the same hour, an event in the last row and one after it
BusyDay ==
    <<TimedEvent(0, 7, 1, "E"), TimedEvent(0, 9, 3, "A"),
      TimedEvent(0, 9, 1, "B"), TimedEvent(0, 20, 1, "C"),
      TimedEvent(0, 21, 1, "D")>>

\* the events of a week, by day, as the week view takes them
BusyWeek == DictArg(0 :> BusyDay @@ 1 :> <<TimedEvent(1, 11, 2, "A")>>)

LayoutEvents ==
    { NoneArg,
      BusyWeek,
      ListArg(BusyDay),
      DictArg(0 :> CrowdedDay),
      DictArg(0 :> <<PdfEvent(0, 9, "A"), PdfEvent(0, 9, "B")>>
                @@ 1 :> <<PdfEvent(1, 9, "B")>>),
      ListArg(<<PdfEvent(0, 9, "A"), PdfEvent(0, 10, "B")>>) }

\* no weather, an empty dict, a week (2024-01-01 to 2024-01-07) of
\* placeholders, a week of None, a forecast for one day, and the one
\* forecast the day view takes
WeatherArgs ==
    { NoneArg,
      DictArg(<<>>),
      DictArg([d \in 0..(DaysPerWeek - 1) |-> Unavailable]),
      DictArg([d \in 0..(DaysPerWeek - 1) |-> NoForecast]),
      DictArg(0 :> Forecast("rain", "12") @@ 1 :> NoForecast),
      ForecastArg(Forecast("rain", "12")),
      ForecastArg(Unavailable) }

TaskArgs ==
    {NoneArg, ListArg(<<>>), ListArg(<<"call">>), ListArg(<<"call", "post">>)}

Feb29 == Ordinal(2024, 2, 29)

\* no date, the first day of every month of 2024 and of February 2025, a
\* Wednesday and a leap day
LayoutDates ==
    {NoneArg} \cup {DayArg(Ordinal(2024, m, 1)) : m \in 1..12}
        \cup {DayArg(Ordinal(2025, 2, 1)), DayArg(2), DayArg(Feb29)}

\* app.tablet_model, events, weather and tasks of a caller: every events
\* without weather and tasks, every weather with every tasks, and every
\* tablet model
LayoutInputs ==
    ({NoAttribute} \X LayoutEvents \X {NoneArg} \X {NoneArg})
        \cup ({NoAttribute}
                \X {NoneArg, ListArg(<<PdfEvent(0, 9, "A"), PdfEvent(0, 10, "B")>>)}
                \X WeatherArgs \X TaskArgs)
        \cup (DeviceIds
                \X {ListArg(<<PdfEvent(0, 9, "A"), PdfEvent(0, 10, "B")>>)}
                \X {ForecastArg(Forecast("rain", "12")),
                    DictArg([d \in 0..(DaysPerWeek - 1) |-> Unavailable])}
                \X {NoneArg, ListArg(<<"call", "post">>)})

----------------------------------------------------------------------------
(* The screens and the callers of generate_calendar_pdf *)

\* who called, with which view type and include flags, and what came of it
Outcome(caller, vt, call, result) ==
    [caller |-> caller, view_type |-> vt,
     include |-> [month |-> include_months, week |-> include_weeks,
                  day |-> include_days],
     date |-> IF Unbindable(call) THEN NoneArg ELSE Bound(call, "date"),
     kind |-> result.kind, exc |-> result.exc, pages |-> result.pages]

NoDoc ==
    [caller |-> "", view_type |-> "",
     include |-> [month |-> TRUE, week |-> TRUE, day |-> TRUE],
     date |-> NoneArg, kind |-> "none", exc |-> "", pages |-> <<>>]

\* PDFPreviewView.__init__ / PDFPreviewScreen.__init__
InitScreen ==
    /\ view_type = "month"
    /\ current_date \in AnchorDays
    /\ include_months = TRUE
    /\ include_weeks = TRUE
    /\ include_days = TRUE
    /\ pdf_events = NoneArg
    /\ pdf_weather = NoneArg
    /\ pdf_tasks = NoneArg
    /\ doc = NoDoc
    /\ generator = NoGenerator

\* a caller of generate_calendar_pdf outside the screens, holding events
InitDoc ==
    /\ view_type = "month"
    /\ current_date \in AnchorDays
    /\ include_months = TRUE
    /\ include_weeks = TRUE
    /\ include_days = TRUE
    /\ pdf_events \in EventArgs
    /\ pdf_weather = NoneArg
    /\ pdf_tasks = NoneArg
    /\ doc = NoDoc
    /\ generator = NoGenerator

IdleDoc ==
    /\ view_type = "month"
    /\ current_date = 0
    /\ include_months = TRUE
    /\ include_weeks = TRUE
    /\ include_days = TRUE
    /\ pdf_events = NoneArg
    /\ pdf_weather = NoneArg
    /\ pdf_tasks = NoneArg
    /\ doc = NoDoc
    /\ generator = NoGenerator

\* PDFPreviewView._safe_month_toggle(instance, value); down is value == 'down'
_safe_month_toggle(down) ==
    /\ include_months' = down
    /\ UNCHANGED <<view_type, current_date, include_weeks, include_days>>
    /\ UNCHANGED builtVars
    /\ UNCHANGED outsideDoc

_safe_week_toggle(down) ==
    /\ include_weeks' = down
    /\ UNCHANGED <<view_type, current_date, include_months, include_days>>
    /\ UNCHANGED builtVars
    /\ UNCHANGED outsideDoc

_safe_day_toggle(down) ==
    /\ include_days' = down
    /\ UNCHANGED <<view_type, current_date, include_months, include_weeks>>
    /\ UNCHANGED builtVars
    /\ UNCHANGED outsideDoc

\* PDFPreviewView._safe_view_type_select(view_type) / PDFPreviewScreen.change_view
_safe_view_type_select(vt) ==
    /\ view_type' = vt
    /\ UNCHANGED <<current_date, include_months, include_weeks, include_days>>
    /\ UNCHANGED builtVars
    /\ UNCHANGED outsideDoc

\* PDFPreviewView.generate_preview: generate_calendar_pdf(self.view_type,
\* self.current_date, output_dir, dimensions, components, supports_color)
PreviewCall ==
    Call(<<StrArg(view_type), DayArg(current_date), StrArg("output"),
           OtherArg("tuple"), OtherArg("dict"), OtherArg("bool")>>,
         <<>>)

generate_preview ==
    /\ doc' = Outcome("generate_preview", view_type, PreviewCall,
                      GenerateCalendarPdf(PreviewCall, current_date))
    /\ generator' = Construct(PreviewCall)
    /\ UNCHANGED callerVars
    /\ UNCHANGED outsideDoc

\* PDFPreviewView._perform_pdf_generation: generate_calendar_pdf(output_path,
\* self.current_date, supports_color=..., include=..., dimensions=...,
\* view_type=self.view_type)
PerformCall ==
    Call(<<StrArg("output.pdf"), DayArg(current_date)>>,
         [k \in {"supports_color", "include", "dimensions", "view_type"} |->
             IF k = "view_type" THEN StrArg(view_type) ELSE OtherArg("dict")])

_perform_pdf_generation ==
    /\ doc' = Outcome("_perform_pdf_generation", view_type, PerformCall,
                      GenerateCalendarPdf(PerformCall, current_date))
    /\ generator' = Construct(PerformCall)
    /\ UNCHANGED callerVars
    /\ UNCHANGED outsideDoc

\* PDFPreviewScreen.generate_pdf, generate_in_thread:
\* generate_calendar_pdf(self.current_view, self.current_date, output_path)
ThreadCall ==
    Call(<<StrArg(view_type), DayArg(current_date), StrArg("output.pdf")>>, <<>>)

generate_in_thread ==
    /\ doc' = Outcome("generate_in_thread", view_type, ThreadCall,
                      GenerateCalendarPdf(ThreadCall, current_date))
    /\ generator' = Construct(ThreadCall)
    /\ UNCHANGED callerVars
    /\ UNCHANGED outsideDoc

\* a call from another module, as the signature documents it:
\* generate_calendar_pdf(view_type, output_path, date=date, events=events,
\*                       weather=weather, tasks=tasks)
DocumentedCall(vt, date) ==
    Call(<<StrArg(vt), StrArg("output")>>,
         [k \in {"date", "events", "weather", "tasks"} |->
             IF k = "date" THEN date
             ELSE IF k = "events" THEN pdf_events
             ELSE IF k = "weather" THEN pdf_weather
             ELSE pdf_tasks])

generate_calendar_pdf(vt, date) ==
    /\ doc' = Outcome("generate_calendar_pdf", vt, DocumentedCall(vt, date),
                      GenerateCalendarPdf(DocumentedCall(vt, date), current_date))
    /\ generator' = Construct(DocumentedCall(vt, date))
    /\ UNCHANGED callerVars
    /\ UNCHANGED outsideDoc

NextScreen ==
    \/ \E down \in BOOLEAN : _safe_month_toggle(down)
    \/ \E down \in BOOLEAN : _safe_week_toggle(down)
    \/ \E down \in BOOLEAN : _safe_day_toggle(down)
    \/ \E vt \in ViewTypes : _safe_view_type_select(vt)
    \/ generate_preview
    \/ _perform_pdf_generation
    \/ generate_in_thread

DateArgs == {NoneArg} \cup {DayArg(n) : n \in AnchorDays}

NextDoc ==
    \E vt \in ViewTypes \cup {"year"}, date \in DateArgs :
        generate_calendar_pdf(vt, date)

----------------------------------------------------------------------------
(* WeatherAPI (src/src/utils/weather_api.py) *)

\* timedelta(hours=6) and timedelta(days=7)
CacheHours == 6
HorizonDays == 7

\* DateStr keeping the hour: a key for every datetime
DateStr_WithHour(date) == date

\* date.strftime("%Y-%m-%d"): the day of the datetime
DateStr(date) == date \div HoursPerDay

\* CacheHit with an entry of exactly 6 hours still taken
CacheHit_SixHoursIncluded(date) ==
    /\ DateStr(date) \in DOMAIN cache
    /\ datetime_now - cache[DateStr(date)].timestamp <= CacheHours

\* lines 58-63: the cache holds an entry for the day, less than 6 hours old
CacheHit(date) ==
    /\ DateStr(date) \in DOMAIN cache
    /\ datetime_now - cache[DateStr(date)].timestamp < CacheHours

\* lines 53-73, what get_forecast answers before it asks the network:
\* None without key or location, the cached data, or the placeholder
WithoutFetch(date) ==
    IF ~weather_configured THEN [done |-> TRUE, ret |-> NoForecast]
    ELSE IF CacheHit(date)
         THEN [done |-> TRUE, ret |-> cache[DateStr(date)].data]
    ELSE IF date - datetime_now > HorizonDays * HoursPerDay
         THEN [done |-> TRUE, ret |-> Unavailable]
    ELSE [done |-> FALSE, ret |-> NoForecast]

\* lines 112-115: self.cache[date_str] = {'timestamp': ..., 'data': result}
Stored(date, data) ==
    [k \in DOMAIN cache \cup {DateStr(date)} |->
        IF k = DateStr(date) THEN [timestamp |-> datetime_now, data |-> data]
        ELSE cache[k]]

\* json.dump(self.cache, f): the text, a word at a time, the days in
\* ascending order
RECURSIVE DumpKeys(_, _)
DumpKeys(c, keys) ==
    IF keys = {} THEN <<>>
    ELSE LET k == CHOOSE x \in keys : \A y \in keys : x <= y
             words == IF c[k].data.condition = "light rain"
                      THEN <<"light", "rain">>
                      ELSE <<c[k].data.condition>>
         IN  <<ToString(k), ToString(c[k].timestamp)>> \o words
                 \o <<c[k].data.temperature>> \o DumpKeys(c, keys \ {k})

Dump(c) == <<"{">> \o DumpKeys(c, DOMAIN c) \o <<"}">>

\* what the request gives: an error, a list without a forecast for the
\* date, or a list with one
NetReplies ==
    { [kind |-> "RequestException", data |-> NoForecast],
      [kind |-> "no forecast", data |-> NoForecast],
      [kind |-> "found", data |-> Forecast("rain", "12")],
      [kind |-> "found", data |-> Forecast("light rain", "11")] }

\* 2024-01-02T12:00, 2024-01-08T06:00 and 2024-01-08T18:00
WeatherDates ==
    {HoursPerDay + 12, 7 * HoursPerDay + 6, 7 * HoursPerDay + 18}

\* a call that returned: its date, the time, the value and whether it asked
\* the network
ForecastCall(date, r, f) ==
    [called |-> TRUE, date |-> date, now |-> datetime_now, ret |-> r, fetched |-> f]

NoForecastCall ==
    [called |-> FALSE, date |-> 0, now |-> 0, ret |-> NoForecast, fetched |-> FALSE]

WeatherThreads == {1, 2}

IdleThread == [pc |-> "idle", date |-> 0, data |-> NoForecast, text |-> <<>>]

\* __init__: no cache file yet
InitWeather ==
    /\ weather_configured \in BOOLEAN
    /\ datetime_now = 12
    /\ cache = <<>>
    /\ cache_file = [exists |-> FALSE, text |-> <<>>]
    /\ last_forecast = NoForecastCall
    /\ wthreads = [t \in WeatherThreads |-> IdleThread]

IdleWeather == InitWeather /\ weather_configured = FALSE

\* get_forecast(date), run by one caller from start to end; io is what
\* open(self.cache_file, 'w') does
get_forecast(date, net, io) ==
    /\ IF WithoutFetch(date).done
       THEN /\ last_forecast' = ForecastCall(date, WithoutFetch(date).ret, FALSE)
            /\ UNCHANGED <<cache, cache_file>>
       ELSE IF net.kind = "found"
       THEN /\ cache' = Stored(date, net.data)
            /\ cache_file' = IF io = "ok"
                             THEN [exists |-> TRUE, text |-> Dump(cache')]
                             ELSE cache_file
            /\ last_forecast' = ForecastCall(date, net.data, TRUE)
       ELSE /\ last_forecast' = ForecastCall(date, NoForecast, TRUE)
            /\ UNCHANGED <<cache, cache_file>>
    /\ UNCHANGED <<weather_configured, datetime_now, wthreads>>
    /\ UNCHANGED outsideWeather

\* time passes
Tick ==
    /\ datetime_now + TickHours <= MaxClock
    /\ datetime_now' = datetime_now + TickHours
    /\ UNCHANGED <<weather_configured, cache, cache_file, last_forecast,
                   wthreads>>
    /\ UNCHANGED outsideWeather

\* get_forecast run by thread t, lines 53-110: up to the reply of the network
get_forecast_fetch(t, date, net) ==
    /\ wthreads[t].pc = "idle"
    /\ IF WithoutFetch(date).done \/ net.kind # "found"
       THEN /\ last_forecast' =
                   ForecastCall(date, WithoutFetch(date).ret,
                                ~WithoutFetch(date).done)
            /\ UNCHANGED wthreads
       ELSE /\ wthreads' = [wthreads EXCEPT
                               ![t] = [pc |-> "store", date |-> date,
                                       data |-> net.data, text |-> <<>>]]
            /\ UNCHANGED last_forecast
    /\ UNCHANGED <<weather_configured, datetime_now, cache, cache_file>>
    /\ UNCHANGED outsideWeather

\* lines 112-115
get_forecast_store(t) ==
    /\ wthreads[t].pc = "store"
    /\ cache' = Stored(wthreads[t].date, wthreads[t].data)
    /\ wthreads' = [wthreads EXCEPT ![t].pc = "open"]
    /\ UNCHANGED <<weather_configured, datetime_now, cache_file, last_forecast>>
    /\ UNCHANGED outsideWeather

\* _save_cache, line 38: open(self.cache_file, 'w') empties the file
_save_cache_open(t) ==
    /\ wthreads[t].pc = "open"
    /\ cache_file' = [exists |-> TRUE, text |-> <<>>]
    /\ wthreads' = [wthreads EXCEPT ![t].pc = "dump"]
    /\ UNCHANGED <<weather_configured, datetime_now, cache, last_forecast>>
    /\ UNCHANGED outsideWeather

\* _save_cache, line 39: json.dump writes the text of the cache as it is at
\* that moment into the buffer of the thread's file object
_save_cache_dump(t) ==
    /\ wthreads[t].pc = "dump"
    /\ wthreads' = [wthreads EXCEPT ![t].pc = "close",
                                    ![t].text = Dump(cache)]
    /\ UNCHANGED <<weather_configured, datetime_now, cache, cache_file,
                   last_forecast>>
    /\ UNCHANGED outsideWeather

\* _save_cache, the end of the with block, and the return of get_forecast:
\* the buffer goes to the start of the file, over what is there
_save_cache_close(t) ==
    /\ wthreads[t].pc = "close"
    /\ cache_file' =
           [exists |-> TRUE,
            text |-> wthreads[t].text
                       \o SubSeq(cache_file.text, Len(wthreads[t].text) + 1,
                                 Len(cache_file.text))]
    /\ last_forecast' = ForecastCall(wthreads[t].date, wthreads[t].data, TRUE)
    /\ wthreads' = [wthreads EXCEPT ![t] = IdleThread]
    /\ UNCHANGED <<weather_configured, datetime_now, cache>>
    /\ UNCHANGED outsideWeather

NextWeather ==
    \/ \E date \in WeatherDates, net \in NetReplies, io \in {"ok", "IOError"} :
          get_forecast(date, net, io)
    \/ Tick

NextWeatherThreads ==
    \/ \E t \in WeatherThreads, date \in WeatherDates, net \in NetReplies :
          get_forecast_fetch(t, date, net)
    \/ \E t \in WeatherThreads : get_forecast_store(t)
    \/ \E t \in WeatherThreads : _save_cache_open(t)
    \/ \E t \in WeatherThreads : _save_cache_dump(t)
    \/ \E t \in WeatherThreads : _save_cache_close(t)

----------------------------------------------------------------------------
(* PDFPreviewScreen (src/src/main.py): the preview *)

\* what preview_area shows: the label or the image, the update_preview call
\* it comes from and the view it is for
Shown(kind, req, view) == [kind |-> kind, req |-> req, view |-> view]

NoPreview == Shown("label", 0, "")

\* the popups: the generations whose 'Please Wait' popup is open, and the
\* popup opened last for a result, with the generation it is for
Popups(waiting, result, of) ==
    [waiting |-> waiting, result |-> result, of |-> of]

NoPopup == Popups({}, "", 0)

\* __init__, lines 179-214; no preview file yet
InitPreview ==
    /\ preview = NoPreview
    /\ current_preview_path = 0
    /\ preview_files = {}
    /\ pthreads = <<>>
    /\ clock = <<>>
    /\ requests = 0
    /\ preview_importable \in BOOLEAN
    /\ popup = NoPopup
    /\ gthreads = <<>>

\* utils/pdf_generator.py as it stands defines no generate_preview_image
IdlePreview == InitPreview /\ preview_importable = FALSE

\* generate_preview_image(view, date): the path of an image file, a path
\* without a file or None, or an exception
generate_preview_image == {"path", "none", "raise"}

\* update_preview, lines 243-311, after the caller set the view: the old
\* preview file is removed, then the import either fails, and the error is
\* shown at once, or the loading text is shown and a thread is started
update_preview ==
    /\ requests' = requests + 1
    /\ preview_files' = preview_files \ {current_preview_path}
    /\ IF preview_importable
       THEN /\ preview' = Shown("Generating preview...", requests', view_type')
            /\ pthreads' = Append(pthreads, [pc |-> "started", req |-> requests',
                                             view |-> "", date |-> 0,
                                             result |-> NoPreview])
       ELSE /\ preview' = Shown("Error", requests', view_type')
            /\ UNCHANGED pthreads
    /\ UNCHANGED <<current_preview_path, clock, preview_importable>>
    /\ UNCHANGED popupVars
    /\ UNCHANGED outsidePreview

\* setup_preview(view_type, date), lines 232-236
setup_preview(vt, date) ==
    /\ requests + Len(gthreads) < MaxRequests
    /\ view_type' = vt
    /\ current_date' = date
    /\ update_preview

\* change_view(view_type), lines 238-241
change_view(vt) ==
    /\ requests + Len(gthreads) < MaxRequests
    /\ view_type' = vt
    /\ UNCHANGED current_date
    /\ update_preview

\* generate_preview_thread, line 269: the thread reads self.current_view and
\* self.current_date when it makes the call
generate_preview_thread_call(i) ==
    /\ pthreads[i].pc = "started"
    /\ pthreads' = [pthreads EXCEPT ![i].pc = "generating",
                                    ![i].view = view_type,
                                    ![i].date = current_date]
    /\ UNCHANGED <<preview, current_preview_path, preview_files, clock,
                   requests, preview_importable>>
    /\ UNCHANGED <<view_type, current_date>>
    /\ UNCHANGED popupVars
    /\ UNCHANGED outsidePreview

\* lines 271-299: the callback the thread schedules for what the call gave
Callback(th, out) ==
    Shown(IF out = "path" THEN "image"
          ELSE IF out = "none" THEN "Failed to generate preview"
          ELSE "Error generating preview",
          th.req, th.view)

\* generate_preview_thread_return with the thread writing into preview_area
\* itself instead of scheduling a callback
generate_preview_thread_return_Direct(i, out) ==
    /\ pthreads[i].pc = "generating"
    /\ pthreads' = [pthreads EXCEPT ![i].pc = "done",
                                    ![i].result = Callback(pthreads[i], out)]
    /\ preview' = Callback(pthreads[i], out)
    /\ IF out = "path"
       THEN /\ preview_files' = preview_files \cup {pthreads[i].req}
            /\ current_preview_path' = pthreads[i].req
       ELSE UNCHANGED <<preview_files, current_preview_path>>
    /\ UNCHANGED <<clock, requests, preview_importable>>
    /\ UNCHANGED <<view_type, current_date>>
    /\ UNCHANGED popupVars
    /\ UNCHANGED outsidePreview

\* generate_preview_thread, lines 271-299: the thread hands one callback to
\* Clock.schedule_once; with a file it sets current_preview_path first
generate_preview_thread_return(i, out) ==
    /\ pthreads[i].pc = "generating"
    /\ pthreads' = [pthreads EXCEPT ![i].pc = "done",
                                    ![i].result = Callback(pthreads[i], out)]
    /\ clock' = Append(clock, Callback(pthreads[i], out))
    /\ IF out = "path"
       THEN /\ preview_files' = preview_files \cup {pthreads[i].req}
            /\ current_preview_path' = pthreads[i].req
       ELSE UNCHANGED <<preview_files, current_preview_path>>
    /\ UNCHANGED <<preview, requests, preview_importable>>
    /\ UNCHANGED <<view_type, current_date>>
    /\ UNCHANGED popupVars
    /\ UNCHANGED outsidePreview

\* generate_pdf(instance), lines 313-373, on the main thread: the 'Please
\* Wait' popup is opened and a thread is started
generate_pdf ==
    /\ requests + Len(gthreads) < MaxRequests
    /\ popup' = [popup EXCEPT !.waiting = @ \cup {Len(gthreads) + 1}]
    /\ gthreads' = Append(gthreads, [pc |-> "started", req |-> Len(gthreads) + 1])
    /\ UNCHANGED <<preview, current_preview_path, preview_files, pthreads,
                   clock, requests, preview_importable>>
    /\ UNCHANGED <<view_type, current_date>>
    /\ UNCHANGED outsidePreview

\* lines 351 and 354-365: the callback the thread schedules for what
\* generate_calendar_pdf gave
PdfCallback(th, result) ==
    Shown(IF result.kind = "pdf" THEN "_show_pdf_success" ELSE "show_error",
          th.req, view_type)

\* generate_in_thread, lines 346-366, run by the thread: the call of
\* generate_calendar_pdf and the one callback handed to Clock.schedule_once
generation_thread(i) ==
    /\ gthreads[i].pc = "started"
    /\ gthreads' = [gthreads EXCEPT ![i].pc = "done"]
    /\ doc' = Outcome("generate_in_thread", view_type, ThreadCall,
                      GenerateCalendarPdf(ThreadCall, current_date))
    /\ generator' = Construct(ThreadCall)
    /\ clock' = Append(clock,
                       PdfCallback(gthreads[i],
                                   GenerateCalendarPdf(ThreadCall, current_date)))
    /\ UNCHANGED <<preview, current_preview_path, preview_files, pthreads,
                   requests, preview_importable, popup>>
    /\ UNCHANGED <<callerVars, pdf_events, pdf_weather, pdf_tasks>>
    /\ UNCHANGED <<icalVars, appVars, weatherVars, config, calendar_view>>

\* the callbacks of generate_pdf
PopupCallbacks == {"_show_pdf_success", "show_error"}

\* the main loop runs the callback scheduled first: update_ui_with_preview,
\* show_error or show_exception put the image or the text into preview_area;
\* _show_pdf_success and generate_pdf's show_error dismiss the 'Please Wait'
\* popup and open the popup of the result
ClockTick ==
    /\ clock # <<>>
    /\ clock' = Tail(clock)
    /\ IF Head(clock).kind \in PopupCallbacks
       THEN /\ popup' = Popups(popup.waiting \ {Head(clock).req},
                               Head(clock).kind, Head(clock).req)
            /\ UNCHANGED preview
       ELSE /\ preview' = Head(clock)
            /\ UNCHANGED popup
    /\ UNCHANGED <<current_preview_path, preview_files, pthreads, requests,
                   preview_importable, gthreads>>
    /\ UNCHANGED <<view_type, current_date>>
    /\ UNCHANGED outsidePreview

NextPreview ==
    \/ \E vt \in ViewTypes : change_view(vt)
    \/ \E vt \in ViewTypes, date \in AnchorDays : setup_preview(vt, date)
    \/ \E i \in DOMAIN pthreads : generate_preview_thread_call(i)
    \/ \E i \in DOMAIN pthreads, out \in generate_preview_image :
          generate_preview_thread_return(i, out)
    \/ generate_pdf
    \/ \E i \in DOMAIN gthreads : generation_thread(i)
    \/ ClockTick

----------------------------------------------------------------------------
(* ConfigManager (src/src/utils/config_manager.py): the calendar list *)

\* the URLs and names the callers pass; "" is also None: both are falsy
CalendarUrls == {"", "https://a/cal.ics", "https://b/cal.ics"}
CalendarNames == {"", "Work"}

\* what the file system does to save_config: the file is written, open or
\* json.dump fail (caught), or os.makedirs fails (not caught)
SaveOutcomes == {"written", "error", "OSError"}

NoFile == [exists |-> FALSE, calendars |-> <<>>]
NoCall == [op |-> "none", url |-> ""]

\* ConfigManager.__init__ with no config.json to load
InitConfig ==
    config = [calendars |-> <<>>, file |-> NoFile, ret |-> "None",
              last |-> NoCall]

IdleConfig == InitConfig

UrlsOf(calendars) == {calendars[i].url : i \in DOMAIN calendars}

\* list.pop(i)
Pop(list, i) == [k \in 1..(Len(list) - 1) |-> IF k < i THEN list[k] ELSE list[k + 1]]

\* save_config: the value it returns and the file it leaves
save_config(calendars, io) ==
    [ret |-> CASE io = "written" -> "True"
               [] io = "error" -> "False"
               [] OTHER -> io,
     file |-> IF io = "written"
                THEN [exists |-> TRUE, calendars |-> calendars]
                ELSE config.file]

\* add_calendar without the loop that looks for the URL
add_calendar_NoDuplicateCheck(url, name, io) ==
    LET called == [op |-> "add_calendar", url |-> url]
        given == IF name = ""
                   THEN "Calendar " \o ToString(Len(config.calendars) + 1)
                   ELSE name
        added == Append(config.calendars, [name |-> given, url |-> url])
        saved == save_config(added, io)
    IN  /\ config' = IF url = ""
                       THEN [config EXCEPT !.ret = "False", !.last = called]
                       ELSE [calendars |-> added, file |-> saved.file,
                             ret |-> saved.ret, last |-> called]
        /\ UNCHANGED outsideConfig

add_calendar(url, name, io) ==
    LET called == [op |-> "add_calendar", url |-> url]
        given == IF name = ""
                   THEN "Calendar " \o ToString(Len(config.calendars) + 1)
                   ELSE name
        added == Append(config.calendars, [name |-> given, url |-> url])
        saved == save_config(added, io)
    IN  /\ config' = IF url = "" \/ url \in UrlsOf(config.calendars)
                       THEN [config EXCEPT !.ret = "False", !.last = called]
                       ELSE [calendars |-> added, file |-> saved.file,
                             ret |-> saved.ret, last |-> called]
        /\ UNCHANGED outsideConfig

remove_calendar(url, io) ==
    LET called == [op |-> "remove_calendar", url |-> url]
        found == {i \in DOMAIN config.calendars : config.calendars[i].url = url}
        first == CHOOSE i \in found : \A k \in found : i <= k
        left == Pop(config.calendars, first)
        saved == save_config(left, io)
    IN  /\ config' = IF url = "" \/ found = {}
                       THEN [config EXCEPT !.ret = "False", !.last = called]
                       ELSE [calendars |-> left, file |-> saved.file,
                             ret |-> saved.ret, last |-> called]
        /\ UNCHANGED outsideConfig

NextConfig ==
    \/ \E url \in CalendarUrls, name \in CalendarNames, io \in SaveOutcomes :
          add_calendar(url, name, io)
    \/ \E url \in CalendarUrls, io \in SaveOutcomes : remove_calendar(url, io)

----------------------------------------------------------------------------
(* CalendarView (src/src/views/calendar_view.py): the navigation buttons *)

\* a datetime, by the fields the navigation reads and replaces
Datetime(year, month, day) == [year |-> year, month |-> month, day |-> day]

\* the values datetime.now() takes while the screen is open
Todays == {Datetime(2024, 1, 31), Datetime(2024, 2, 29), Datetime(2024, 3, 30),
           Datetime(2024, 12, 15)}

\* datetime.replace(year=, month=, day=): ValueError when the month has no
\* such day
Replace(d, year, month, day) ==
    IF day <= DaysInMonth(year, month)
      THEN [raised |-> "", date |-> Datetime(year, month, day)]
      ELSE [raised |-> "ValueError", date |-> d]

\* d + timedelta(days=1) and d - timedelta(days=1)
NextDay(d) ==
    IF d.day < DaysInMonth(d.year, d.month) THEN Datetime(d.year, d.month, d.day + 1)
    ELSE IF d.month < 12 THEN Datetime(d.year, d.month + 1, 1)
    ELSE Datetime(d.year + 1, 1, 1)

PrevDay(d) ==
    IF d.day > 1 THEN Datetime(d.year, d.month, d.day - 1)
    ELSE IF d.month > 1
      THEN Datetime(d.year, d.month - 1, DaysInMonth(d.year, d.month - 1))
    ELSE Datetime(d.year - 1, 12, 31)

RECURSIVE AddDays(_, _)
\* d + timedelta(days=n)
AddDays(d, n) ==
    IF n = 0 THEN d
    ELSE IF n > 0 THEN AddDays(NextDay(d), n - 1)
    ELSE AddDays(PrevDay(d), n + 1)

\* MonthView.update_calendar: the month and the year of the title, whose
\* weeks fill the grid
MonthTitle(d) == [year |-> d.year, month |-> d.month]

\* CalendarView.__init__: the three views are built at one datetime.now()
InitCalendarView ==
    \E today \in Todays :
        calendar_view = [current_view |-> "month", month_view |-> today,
                         week_view |-> today, day_view |-> today,
                         title |-> MonthTitle(today), raised |-> "",
                         last |-> "__init__", periods |-> 0]

IdleCalendarView ==
    LET today == Datetime(2024, 12, 15)
    IN  calendar_view = [current_view |-> "month", month_view |-> today,
                         week_view |-> today, day_view |-> today,
                         title |-> MonthTitle(today), raised |-> "",
                         last |-> "__init__", periods |-> 0]

\* the month view's date one month on (by = 1) or back (by = -1), as
\* previous_period and next_period replace it: the day is kept
MonthStep(d, by) ==
    IF by = 1 /\ d.month = 12 THEN Replace(d, d.year + 1, 1, d.day)
    ELSE IF by = -1 /\ d.month = 1 THEN Replace(d, d.year - 1, 12, d.day)
    ELSE Replace(d, d.year, d.month + by, d.day)

\* previous_period (by = -1) and next_period (by = 1): the screen they leave
Period(by) ==
    LET cv == calendar_view
        stepped == MonthStep(cv.month_view, by)
    IN  IF cv.current_view = "month"
          THEN IF stepped.raised # ""
                 THEN [cv EXCEPT !.raised = stepped.raised]
                 ELSE [cv EXCEPT !.month_view = stepped.date,
                                 !.title = MonthTitle(stepped.date),
                                 !.raised = ""]
        ELSE IF cv.current_view = "week"
          THEN [cv EXCEPT !.week_view = AddDays(@, 7 * by), !.raised = ""]
        ELSE IF cv.current_view = "day"
          THEN [cv EXCEPT !.day_view = AddDays(@, by), !.raised = ""]
        ELSE [cv EXCEPT !.raised = ""]

previous_period ==
    /\ calendar_view.periods < MaxPeriods
    /\ calendar_view' = [Period(-1) EXCEPT !.last = "previous_period",
                                           !.periods = @ + 1]
    /\ UNCHANGED outsideCalendarView

next_period ==
    /\ calendar_view.periods < MaxPeriods
    /\ calendar_view' = [Period(1) EXCEPT !.last = "next_period",
                                          !.periods = @ + 1]
    /\ UNCHANGED outsideCalendarView

go_to_today(today) ==
    LET cv == calendar_view
    IN  /\ calendar_view' =
              [(IF cv.current_view = "month"
                  THEN [cv EXCEPT !.month_view = today,
                                  !.title = MonthTitle(today)]
                ELSE IF cv.current_view = "week"
                  THEN [cv EXCEPT !.week_view = today]
                ELSE IF cv.current_view = "day"
                  THEN [cv EXCEPT !.day_view = today]
                ELSE cv)
               EXCEPT !.raised = "", !.last = "go_to_today"]
        /\ UNCHANGED outsideCalendarView

\* the days of the grid's buttons that the model presses
GridDays == {1, 29, 30, 31}

\* select_day, bound to the buttons of the month the grid shows
select_day(day) ==
    LET cv == calendar_view
        selected_date == Replace(cv.month_view, cv.month_view.year,
                                 cv.month_view.month, day)
    IN  /\ day <= DaysInMonth(cv.title.year, cv.title.month)
        /\ calendar_view' =
              IF selected_date.raised # ""
                THEN [cv EXCEPT !.raised = selected_date.raised,
                                !.last = "select_day"]
                ELSE [cv EXCEPT !.day_view = selected_date.date,
                                !.current_view = "day",
                                !.raised = "",
                                !.last = "select_day"]
        /\ UNCHANGED outsideCalendarView

NextCalendarView ==
    \/ previous_period
    \/ next_period
    \/ \E today \in Todays : go_to_today(today)
    \/ \E day \in GridDays : select_day(day)

----------------------------------------------------------------------------
(* Specifications *)

\* the parser: a calendar feed, a query range, and calls of get_events
Init ==
    /\ InitICal /\ IdleDoc /\ IdleApp /\ IdleWeather /\ IdlePreview
    /\ IdleConfig
    /\ IdleCalendarView

Next == NextICal

Spec == Init /\ [][Next]_vars

\* the document builder, called as its signature documents
DocInit ==
    /\ InitDoc /\ IdleICal /\ IdleApp /\ IdleWeather /\ IdlePreview
    /\ IdleConfig
    /\ IdleCalendarView

SpecDoc == DocInit /\ [][NextDoc]_vars

\* the screens of the repository that call the document builder
ScreenInit ==
    /\ InitScreen /\ IdleICal /\ IdleApp /\ IdleWeather /\ IdlePreview
    /\ IdleConfig
    /\ IdleCalendarView

SpecScreen == ScreenInit /\ [][NextScreen]_vars

\* the app selects tablets and a generator is built under it; the running
\* app is any app, with or without an attribute tablet_model
DeviceInit ==
    /\ InitApp
    /\ app_tablet_model \in DeviceIds \cup {NoAttribute}
    /\ InitScreen
    /\ IdleICal
    /\ IdleWeather
    /\ IdlePreview
    /\ IdleConfig
    /\ IdleCalendarView

NextDevice ==
    \/ \E m \in DeviceIds : select_tablet(m)
    \/ \E vt \in ViewTypes : generate_calendar_pdf(vt, NoneArg)

SpecDevice == DeviceInit /\ [][NextDevice]_vars

\* the layouts: a caller with events, weather and tasks, under any app
LayoutInit ==
    /\ InitApp
    /\ \E i \in LayoutInputs :
          /\ app_tablet_model = i[1]
          /\ pdf_events = i[2]
          /\ pdf_weather = i[3]
          /\ pdf_tasks = i[4]
    /\ view_type = "month"
    /\ current_date = 0
    /\ include_months = TRUE
    /\ include_weeks = TRUE
    /\ include_days = TRUE
    /\ doc = NoDoc
    /\ generator = NoGenerator
    /\ IdleICal
    /\ IdleWeather
    /\ IdlePreview
    /\ IdleConfig
    /\ IdleCalendarView

NextLayout ==
    \E vt \in ViewTypes, date \in LayoutDates : generate_calendar_pdf(vt, date)

SpecLayout == LayoutInit /\ [][NextLayout]_vars

\* the weather, asked by one caller at a time
WeatherInit ==
    /\ InitWeather /\ IdleICal /\ IdleDoc /\ IdleApp /\ IdlePreview
    /\ IdleConfig
    /\ IdleCalendarView

SpecWeather == WeatherInit /\ [][NextWeather]_vars

\* the weather, asked by two threads at once, at one time of the clock
WeatherThreadsInit ==
    /\ InitWeather /\ IdleICal /\ IdleDoc /\ IdleApp /\ IdlePreview
    /\ IdleConfig
    /\ IdleCalendarView

SpecWeatherThreads == WeatherThreadsInit /\ [][NextWeatherThreads]_vars

\* the preview screen of main.py
PreviewInit ==
    /\ InitPreview /\ IdleICal /\ IdleDoc /\ IdleApp /\ IdleWeather
    /\ IdleConfig
    /\ IdleCalendarView

SpecPreview == PreviewInit /\ [][NextPreview]_vars

\* the calendar list of the configuration, from an empty list
ConfigInit ==
    /\ InitConfig /\ IdleICal /\ IdleDoc /\ IdleApp /\ IdleWeather
    /\ IdlePreview
    /\ IdleCalendarView

SpecConfig == ConfigInit /\ [][NextConfig]_vars

\* the calendar screen and its navigation buttons
CalendarViewInit ==
    /\ InitCalendarView /\ IdleICal /\ IdleDoc /\ IdleApp /\ IdleWeather
    /\ IdlePreview
    /\ IdleConfig

SpecCalendarView == CalendarViewInit /\ [][NextCalendarView]_vars

----------------------------------------------------------------------------
(* Properties of get_events *)

\* ret is what the loop over the loaded calendar returned or raised
Answered == calendar.loaded /\ ret.kind # "none"

Returned == Answered /\ ret.kind = "list"

\* the returned occurrences that come from the i-th component
OccurrencesOf(i) == SelectSeq(ret.events, LAMBDA o : o.src = i)

StartsOf(events) == [j \in 1..Len(events) |-> events[j].start.v]

\* an occurrence without its history field
Plain(o) == [summary |-> o.summary, all_day |-> o.all_day,
             start |-> o.start, end |-> o.end]

PlainSeq(events) == [j \in 1..Len(events) |-> Plain(events[j])]

\* a one-time VEVENT whose start and end are datetimes with start <= end
OneTimeOrdered(c) ==
    /\ c.name = "VEVENT" /\ c.dtstart.k # "none" /\ ~HasRule(c)
    /\ IsDateTime(EventEnd(c))
    /\ EventStart(c).v <= EventEnd(c).v

\* C1: a non-recurring event with start <= end is returned exactly once when
\* its interval intersects the query range (start <= range_end and
\* end >= range_start), and not at all otherwise.
C1_OneTimeIffIntersects ==
    Returned =>
        \A i \in DOMAIN calendar.comps :
            LET c == calendar.comps[i]
            IN  OneTimeOrdered(c) =>
                    Len(OccurrencesOf(i)) =
                        IF EventStart(c).v <= range_end
                              /\ EventEnd(c).v >= range_start
                        THEN 1 ELSE 0

\* the query the dated scenarios use: 2024-01-01 .. 2024-01-31
JanuaryQuery == range_start = 0 /\ range_end = Jan31

UntilScenarioAnswered ==
    Answered /\ calendar.comps = <<UntilScenario>> /\ JanuaryQuery

\* C2 (as amended): FREQ=DAILY;UNTIL=2024-01-10T00:00:00 from 2024-01-08T09:00
\* over 2024-01-01..2024-01-31 gives exactly 2 occurrences, on Jan 8 and Jan 9
\* at 09:00; the instant of Jan 10 09:00 is after UNTIL.
C2_UntilScenarioTwoOccurrences ==
    UntilScenarioAnswered =>
        /\ ret.kind = "list"
        /\ StartsOf(ret.events) = <<Jan8At9, Jan8At9 + HoursPerDay>>

C2_Witness ==
    UntilScenarioAnswered /\ ret.kind = "list" /\ Len(ret.events) = 2

\* C2 (as claimed): the same expansion gives exactly 3 occurrences, on
\* Jan 8, Jan 9 and Jan 10.
C2_UntilScenarioThreeOccurrences ==
    UntilScenarioAnswered =>
        /\ ret.kind = "list"
        /\ StartsOf(ret.events) =
               <<Jan8At9, Jan8At9 + HoursPerDay, Jan8At9 + 2 * HoursPerDay>>

\* a VEVENT with FREQ=WEEKLY;COUNT=4 whose start and end are datetimes
WeeklyCount4(c) ==
    /\ c.name = "VEVENT" /\ c.dtstart.k # "none"
    /\ c.rrule = Rule("WEEKLY", 1, 4, -1)
    /\ IsDateTime(EventEnd(c))

\* C3: FREQ=WEEKLY;COUNT=4 over a query range that spans 5 weeks from the
\* base start (range_start <= start, start + 5 weeks <= range_end) gives
\* exactly 4 occurrences, 7 days apart, each of the base event's duration,
\* also when the base start is the range start.
C3_WeeklyCount4FourOccurrences ==
    Answered =>
        \A i \in DOMAIN calendar.comps :
            LET c == calendar.comps[i]
                s == EventStart(c).v
                occ == OccurrencesOf(i)
            IN  (/\ WeeklyCount4(c)
                 /\ range_start <= s
                 /\ s + FiveWeeks <= range_end
                 /\ \A j \in DOMAIN calendar.comps :
                        j # i => ProcessComponent(calendar.comps[j], j,
                                     range_start, range_end).exc = "")
                => /\ ret.kind = "list"
                   /\ Len(occ) = 4
                   /\ \A j \in 1..Len(occ) :
                        /\ occ[j].start.v = s + (j - 1) * DaysPerWeek * HoursPerDay
                        /\ occ[j].end.v - occ[j].start.v = EventEnd(c).v - s

\* C4: every occurrence made from a recurring event lasts as long as the base
\* event: its end minus its start is the base end minus the base start.
C4_RecurringKeepsDuration ==
    Returned =>
        \A j \in DOMAIN ret.events :
            LET o == ret.events[j]
                c == calendar.comps[o.src]
            IN  HasRule(c) =>
                    /\ IsDateTime(o.start) /\ IsDateTime(o.end)
                    /\ o.end.v - o.start.v = EventEnd(c).v - EventStart(c).v

\* a recurring event was moved to a later instant, and its end with it
C4_Witness ==
    /\ Returned
    /\ \E j \in DOMAIN ret.events :
          LET o == ret.events[j]
              c == calendar.comps[o.src]
          IN  /\ HasRule(c)
              /\ o.start.v > EventStart(c).v
              /\ o.end.v > EventEnd(c).v
              /\ EventEnd(c).v - EventStart(c).v > DefaultDurationHours

Malformed(c) == c.name = "VEVENT" /\ c.dtstart.k # "none" /\ c.rrule.freq = "BAD"

WellFormedComps == SelectSeq(calendar.comps, LAMBDA c : ~Malformed(c))

\* C9: with one event whose rule cannot be parsed and the other events well
\* formed, get_events returns the occurrences of the other events.
C9_MalformedRuleSkipped ==
    (/\ Answered
     /\ \E i \in DOMAIN calendar.comps : Malformed(calendar.comps[i])
     /\ Walk(WellFormedComps, range_start, range_end).kind = "list")
    => /\ ret.kind = "list"
       /\ PlainSeq(ret.events) =
              PlainSeq(Walk(WellFormedComps, range_start, range_end).events)

\* C10: no returned occurrence ends before it starts.
C10_EndNotBeforeStart ==
    Returned =>
        \A j \in DOMAIN ret.events :
            LET o == ret.events[j]
            IN  IsDateTime(o.end) => o.end.v >= o.start.v

\* the last get_events call asked fetch_calendar for the calendar and got none
FetchFailed == fetched \in {"no url", "RequestException", "ValueError"}

\* C11: when the fetch fails (no URL, a network error or a feed that does not
\* parse) get_events returns the empty list and does not raise, and the parser
\* holds no calendar; and every get_events call that finds no calendar runs
\* fetch_calendar, so the call after a failure tries the fetch again.
C11_FailedFetchEmptyAndRetried ==
    /\ [](FetchFailed => ret = EmptyList /\ calendar = NoCalendar)
    /\ [][(~calendar.loaded /\ (ret' # ret \/ fetched' # fetched))
            => fetched' # "not called"]_vars

\* a request failed for a URL that serves events
C11_Witness ==
    /\ fetched = "RequestException"
    /\ ical_url = "url"
    /\ ret = EmptyList
    /\ calendar = NoCalendar
    /\ feed # <<>>

\* a recurring VEVENT with a rule that parses, whose start and end are
\* datetimes with start <= end
RecurringOrdered(c) ==
    /\ c.name = "VEVENT" /\ c.dtstart.k # "none"
    /\ HasRule(c) /\ c.rrule.freq # "BAD"
    /\ IsDateTime(EventEnd(c))
    /\ EventStart(c).v <= EventEnd(c).v

\* the returned occurrences of the i-th component that start at t
OccurrencesAt(i, t) ==
    {j \in DOMAIN ret.events :
        ret.events[j].src = i /\ ret.events[j].start.v = t}

\* C21: for a recurring event get_events returns one occurrence for every
\* recurrence instant t whose interval [t, t + duration] intersects the query
\* range (t <= range_end and t + duration >= range_start, the ends of the
\* range included), and none for any other instant.
C21_RecurringIffIntersects ==
    Returned =>
        \A i \in DOMAIN calendar.comps :
            LET c == calendar.comps[i]
                d == EventEnd(c).v - EventStart(c).v
            IN  RecurringOrdered(c) =>
                    \A k \in 0..(range_end \div HoursPerDay + 1) :
                        LET t == EventStart(c).v + k * PeriodHours(c.rrule)
                        IN  Cardinality(OccurrencesAt(i, t)) =
                                IF /\ InRule(c.rrule, t, k)
                                   /\ t <= range_end
                                   /\ t + d >= range_start
                                THEN 1 ELSE 0

----------------------------------------------------------------------------
(* Properties of the document builder *)

\* the lexicographic order of the summaries in use
SummaryOrder == <<"A", "B">>

SummaryRank(s) == CHOOSE i \in DOMAIN SummaryOrder : SummaryOrder[i] = s

\* e is not after f: by start time, then by summary
NotAfter(e, f) ==
    \/ e.start.v < f.start.v
    \/ e.start.v = f.start.v /\ SummaryRank(e.summary) <= SummaryRank(f.summary)

RECURSIVE Insert(_, _)
Insert(e, sorted) ==
    IF sorted = <<>> THEN <<e>>
    ELSE IF NotAfter(e, Head(sorted)) THEN <<e>> \o sorted
    ELSE <<Head(sorted)>> \o Insert(e, Tail(sorted))

RECURSIVE SortedEvents(_)
SortedEvents(list) ==
    IF list = <<>> THEN <<>>
    ELSE Insert(list[Len(list)], SortedEvents(SubSeq(list, 1, Len(list) - 1)))

\* the events the caller supplied for a day, sorted by start, then summary
SortedOn(day) ==
    IF KeyIn(pdf_events, day) THEN SortedEvents(pdf_events.dict[day]) ELSE <<>>

Rendered == doc.kind = "pdf"

\* C5: the events shown for a day are in ascending start order, ties in
\* lexicographic order of summary, whatever order they were supplied in: a
\* month cell lists the day's events so, and so does every week cell.
C5_DayEventsSorted ==
    Rendered =>
        \A p \in DOMAIN doc.pages :
            LET page == doc.pages[p]
            IN  /\ page.view = "month" =>
                      \A r \in DOMAIN page.grid : \A c \in DOMAIN page.grid[r] :
                          LET cell == page.grid[r][c]
                          IN  cell.day # 0 =>
                                  cell.lines =
                                      Summaries(SortedOn(page.first + cell.day - 1))
                /\ page.view = "week" =>
                      \A h \in DOMAIN page.rows : \A c \in DOMAIN page.rows[h] :
                          page.rows[h][c] =
                              Summaries(SelectSeq(SortedOn(page.first + c - 1),
                                                  LAMBDA e : HourOf(e) = h))

\* the views the include flags ask for, month before week before day
IncludedViews(inc) ==
    (IF inc.month THEN <<"month">> ELSE <<>>)
        \o (IF inc.week THEN <<"week">> ELSE <<>>)
        \o (IF inc.day THEN <<"day">> ELSE <<>>)

ViewsOf(pages) == [p \in 1..Len(pages) |-> pages[p].view]

\* the callers that hand the include flags to generate_calendar_pdf
WithIncludeFlags ==
    /\ doc.kind # "none"
    /\ doc.caller \in {"generate_preview", "_perform_pdf_generation"}

\* C6: with k >= 1 include flags set, the document holds exactly those k
\* views, month before week before day, one page each (k - 1 page breaks).
C6_IncludedViewsInOrder ==
    (WithIncludeFlags /\ IncludedViews(doc.include) # <<>>)
    => /\ doc.kind = "pdf"
       /\ ViewsOf(doc.pages) = IncludedViews(doc.include)

\* C7: with no include flag set the document is not empty: it holds exactly
\* the view named by view_type.
C7_NoSelectionFallsBack ==
    (WithIncludeFlags /\ IncludedViews(doc.include) = <<>>)
    => /\ doc.kind = "pdf"
       /\ ViewsOf(doc.pages) = <<doc.view_type>>

\* C8: every call of generate_calendar_pdf ends with a document; when the
\* rendering raised, the document is a single page.
C8_DocumentAlwaysExists ==
    (doc.kind # "none" /\ doc.caller = "generate_calendar_pdf")
    => /\ doc.kind = "pdf"
       /\ Len(doc.pages) >= 1

----------------------------------------------------------------------------
(* Properties of the device profile *)

\* the page size and colour support of the reMarkable 2
DefaultProfile == _get_tablet_specs("reMarkable 2")

\* C12: a tablet model that is unknown or absent (None, the empty string, no
\* attribute at all) raises nothing and gives the reMarkable 2 profile: the
\* generator's page size is the reMarkable 2 page size and it has no colour;
\* the dimensions the app records are the reMarkable 2 width and height and
\* the app records no colour support.
C12_UnknownDeviceDefaultProfile ==
    /\ (generator # NoGenerator /\ app_tablet_model \notin KnownDevices) =>
           /\ generator.page_size = DefaultProfile.page_size
           /\ generator.supports_color = FALSE
           /\ doc.kind = "pdf"
    /\ selected_tablet \notin KnownDevices =>
           /\ dimensions.width_pt = get_dimensions("reMarkable 2", NoneId).width_pt
           /\ dimensions.height_pt = get_dimensions("reMarkable 2", NoneId).height_pt
           /\ supports_color = FALSE

\* an unknown model was selected and a generator built for an unknown model
C12_Witness ==
    /\ selected_tablet = "Kindle"
    /\ app_tablet_model = "Kindle"
    /\ generator # NoGenerator
    /\ generator.tablet_model = "Kindle"

\* C27: after select_tablet(m), a PDF generator created afterwards by the
\* app of the repository uses the profile of m: it supports colour exactly
\* when m is "Paper Pro", and its page size is the page size the app records
\* for m.
C27_GeneratorUsesSelectedTablet ==
    [][(/\ app_tablet_model = NoAttribute
        /\ selected_tablet # NoneId
        /\ doc' # doc \/ generator' # generator)
       => /\ generator'.supports_color = (selected_tablet = "Paper Pro")
          /\ generator'.page_size =
                 <<dimensions.width_pt, dimensions.height_pt>>
      ]_vars

----------------------------------------------------------------------------
(* Properties of the layouts *)

\* the date the last call laid out: the date argument, or now
Anchor == IF doc.date.t = "none" THEN current_date ELSE doc.date.v

RenderedView(v) == doc.kind = "pdf" /\ doc.pages[1].view = v

\* the cells of a month grid that hold a day
DayCells(grid) ==
    {rc \in (DOMAIN grid) \X (1..DaysPerWeek) : grid[rc[1]][rc[2]].day # 0}

\* C13: the month page is a Monday-first grid of 7 * ceil((days in month +
\* weekday offset of the 1st) / 7) cells, every row 7 cells; exactly the days
\* of the month are non-empty, each in the column of its weekday, and the
\* other cells are empty. February 2024 has 5 rows, the 29th is a day cell,
\* and the places of 31 January and 1 March are empty.
C13_MonthGrid ==
    RenderedView("month") =>
        LET grid == doc.pages[1].grid
            y == YearOf(Anchor)
            m == MonthOf(Anchor)
            n == DaysInMonth(y, m)
            first == Ordinal(y, m, 1)
            off == first % 7
        IN  /\ Len(grid) * 7 = 7 * ((n + off + 6) \div 7)
            /\ \A r \in DOMAIN grid : DOMAIN grid[r] = 1..7
            /\ Cardinality(DayCells(grid)) = n
            /\ \A r \in DOMAIN grid, c \in 1..7 :
                  LET cell == grid[r][c]
                      place == (r - 1) * 7 + c - off
                  IN  IF place >= 1 /\ place <= n
                      THEN cell.day = place
                      ELSE cell.day = 0 /\ cell.lines = <<>>
            /\ (y = 2024 /\ m = 2) =>
                  /\ Len(grid) = 5
                  /\ grid[5][4].day = 29
                  /\ grid[1][3].day = 0
                  /\ grid[5][5].day = 0

\* February 2024 was laid out from its leap day
C13_Witness ==
    /\ RenderedView("month")
    /\ Anchor = Feb29
    /\ doc.pages[1].grid[5][4].day = 29

\* line 141: a week row of the month table is 80 points high; line 160: its
\* text is 9 points high
MonthRowHeight == 80
MonthFontSize == 9

MoreMarker(k) == "+" \o ToString(k) \o " more"

\* C14: a month cell lists at most N summaries, N no more than the lines a
\* cell has room for, and a day with more events than N carries the marker
\* "+k more" with k the number of events left out.
C14_MonthCellCapped ==
    RenderedView("month") =>
        LET grid == doc.pages[1].grid
            N == MonthRowHeight \div MonthFontSize
        IN  \A rc \in DayCells(grid) :
                LET cell == grid[rc[1]][rc[2]]
                    all == IF Truthy(pdf_events)
                           THEN _get_events_for_day(pdf_events, YearOf(Anchor),
                                                    MonthOf(Anchor), cell.day)
                           ELSE <<>>
                IN  /\ Len(cell.lines) <= N
                    /\ Len(all) > N =>
                          \E j \in DOMAIN cell.lines :
                              cell.lines[j] = MoreMarker(Len(all) - N)

\* C15: for every anchor date and every tablet the week page starts on the
\* Monday on or before the anchor, 0 to 6 days before it, has 7 day columns
\* for 7 days in a row, and 13 hour rows, 08:00 to 20:00.
C15_WeekGrid ==
    RenderedView("week") =>
        LET page == doc.pages[1]
        IN  /\ page.first % 7 = 0
            /\ Anchor - page.first \in 0..6
            /\ DOMAIN page.header = 1..7
            /\ \A c \in 1..7 : page.header[c].day = page.first + c - 1
            /\ DOMAIN page.rows = 8..20
            /\ Cardinality(DOMAIN page.rows) = 13
            /\ \A h \in 8..20 : DOMAIN page.rows[h] = 1..7

\* a week laid out from its Sunday for a tablet with colour
C15_Witness ==
    /\ RenderedView("week")
    /\ Anchor = doc.pages[1].first + 6
    /\ generator.supports_color

\* the weather holds no forecast for the day
NoForecastFor(weather, day) ==
    \/ weather.t = "none"
    \/ /\ weather.t = "dict"
       /\ day \in DOMAIN weather.dict =>
              weather.dict[day].none \/ weather.dict[day] = Unavailable

\* C16: when the weather is unavailable for all seven days of the week (None
\* or the placeholder of the weather source), no cell of the date row
\* carries weather text, and the page is rendered without an error.
C16_NoWeatherTextWhenUnavailable ==
    (/\ doc.kind # "none"
     /\ doc.view_type = "week"
     /\ \A c \in 0..6 : NoForecastFor(pdf_weather, Anchor - (Anchor % 7) + c))
    => /\ doc.kind = "pdf"
       /\ \A c \in 1..7 : doc.pages[1].header[c].weather = <<>>

\* C18: the checklist of the day page has one row per task when a non-empty
\* task list is supplied and 10 empty rows otherwise, whatever the events,
\* the weather, the date and the tablet.
C18_TaskRows ==
    RenderedView("day") =>
        LET rows == doc.pages[1].tasks
        IN  IF pdf_tasks.t = "list" /\ Len(pdf_tasks.list) > 0
            THEN rows = pdf_tasks.list
            ELSE Len(rows) = 10 /\ \A j \in 1..10 : rows[j] = ""

\* a day with events and weather but no tasks, for a tablet with colour
C18_Witness ==
    /\ RenderedView("day")
    /\ pdf_tasks = NoneArg
    /\ pdf_events.t = "list"
    /\ doc.pages[1].weather # <<>>
    /\ generator.supports_color
    /\ Len(doc.pages[1].tasks) = 10

\* the events handed over by day: the pairs of a day key and a position
EventsByDay ==
    IF pdf_events.t = "dict"
    THEN {kj \in (DOMAIN pdf_events.dict) \X (1..MaxCellEvents) :
             kj[2] \in DOMAIN pdf_events.dict[kj[1]]}
    ELSE {}

EventAt(kj) == pdf_events.dict[kj[1]][kj[2]]

\* the number of lines of a cell that are the summary s
Count(lines, s) == Cardinality({j \in DOMAIN lines : lines[j] = s})

\* C22: in the week view an event appears in exactly one cell, the cell of
\* its own day in the row of its start hour: every cell holds one line for
\* each event of its day that starts in its hour and no other line, so an
\* event is in no later row however long it lasts, and an event that starts
\* outside 08..20 is in no row.
C22_WeekEventInOneCell ==
    (RenderedView("week") /\ pdf_events.t # "list") =>
        LET page == doc.pages[1]
        IN  \A h \in DOMAIN page.rows, c \in 1..7, s \in {"A", "B", "C", "D", "E"} :
                Count(page.rows[h][c], s) =
                    Cardinality({kj \in EventsByDay :
                        /\ EventAt(kj).summary = s
                        /\ EventAt(kj).start.v \div 24 = page.first + c - 1
                        /\ EventAt(kj).start.v % 24 = h})

\* the week of 2024-01-01 with the three-hour event A at 09:00 in the row of
\* 09:00 only, and the events of 07:00 and 21:00 in no row
C22_Witness ==
    /\ RenderedView("week")
    /\ pdf_events = BusyWeek
    /\ doc.pages[1].first = 0
    /\ doc.pages[1].rows[9][1] = <<"A", "B">>
    /\ doc.pages[1].rows[10][1] = <<>>
    /\ doc.pages[1].rows[11][2] = <<"A">>
    /\ \A h \in 8..20 :
          Count(doc.pages[1].rows[h][1], "E") + Count(doc.pages[1].rows[h][1], "D") = 0

\* the events of the day key `day` that start in the hour h
StartingAt(day, h) ==
    {kj \in EventsByDay : kj[1] = day /\ EventAt(kj).start.v % 24 = h}

\* C23 (as amended): in the day view every hour slot shows at most one event,
\* also when several events start in the same hour; in the week view a cell
\* lists every event of its day that starts in its hour, one line each.
C23_DaySlotOneWeekSlotAll ==
    /\ RenderedView("day") =>
          \A h \in DOMAIN doc.pages[1].schedule :
              Len(doc.pages[1].schedule[h]) <= 1
    /\ (RenderedView("week") /\ pdf_events.t # "list") =>
          \A h \in DOMAIN doc.pages[1].rows, c \in 1..7 :
              Len(doc.pages[1].rows[h][c]) =
                  Cardinality(StartingAt(doc.pages[1].first + c - 1, h))

\* the week of 2024-01-01 with two events of Monday that start at 09:00
C23_Witness ==
    /\ RenderedView("week")
    /\ pdf_events = BusyWeek
    /\ Cardinality(StartingAt(0, 9)) = 2
    /\ Len(doc.pages[1].rows[9][1]) = 2

\* C23 (as stated): in both the week view and the day view every hour slot
\* of a day shows at most one event.
C23_OneEventPerSlot ==
    /\ RenderedView("day") =>
          \A h \in DOMAIN doc.pages[1].schedule :
              Len(doc.pages[1].schedule[h]) <= 1
    /\ RenderedView("week") =>
          \A h \in DOMAIN doc.pages[1].rows, c \in 1..7 :
              Len(doc.pages[1].rows[h][c]) <= 1

\* the event list the day view was given
DayList == IF pdf_events.t = "list" THEN pdf_events.list ELSE <<>>

\* C24: in the day view each hour row 08..20 shows the first event of the
\* supplied list, in the order of the list, whose start hour is the hour of
\* the row, and no other event; a row without such an event is empty.
C24_DayRowFirstEvent ==
    RenderedView("day") =>
        /\ DOMAIN doc.pages[1].schedule = 8..20
        /\ \A h \in 8..20 :
              LET at == {j \in DOMAIN DayList : DayList[j].start.v % 24 = h}
              IN  doc.pages[1].schedule[h] =
                      IF at = {} THEN <<>>
                      ELSE <<DayList[CHOOSE j \in at : \A i \in at : j <= i].summary>>

\* the day of 2024-01-01 with A before B at 09:00: the row shows A, the rows
\* without an event are empty
C24_Witness ==
    /\ RenderedView("day")
    /\ pdf_events = ListArg(BusyDay)
    /\ doc.pages[1].schedule[9] = <<"A">>
    /\ doc.pages[1].schedule[20] = <<"C">>
    /\ doc.pages[1].schedule[10] = <<>>

----------------------------------------------------------------------------
(* Properties of the weather *)

\* C17: for a date more than 7 days after the current time get_forecast
\* returns an unavailable value (the placeholder, or None) and asks the
\* network for nothing, whatever earlier calls left in the cache.
C17_BeyondHorizonUnavailable ==
    (/\ last_forecast.called
     /\ last_forecast.date - last_forecast.now > 7 * 24)
    => /\ last_forecast.ret \in {Unavailable, NoForecast}
       /\ ~last_forecast.fetched

\* the days and the entries writers can store
WeatherKeys == {DateStr(d) : d \in WeatherDates}

WholeEntries ==
    [timestamp : 12..(MaxClock + TickHours),
     data : {r.data : r \in {x \in NetReplies : x.kind = "found"}}]

WholeCaches == UNION {[K -> WholeEntries] : K \in SUBSET WeatherKeys}

\* C20: writes to the cache are atomic per day: under every interleaving of
\* get_forecast calls the entry in memory is one writer's whole entry, and
\* the saved file, once it exists, is the whole text of whole entries, never
\* a mix and never partly written (a file just emptied for writing is let
\* pass here).
C20_CacheWritesWhole ==
    /\ \A k \in DOMAIN cache : cache[k] \in WholeEntries
    /\ (cache_file.exists /\ cache_file.text # <<>>) =>
           \E c \in WholeCaches : cache_file.text = Dump(c)

\* a get_forecast call returns in this step
ForecastReturns ==
    \/ last_forecast' # last_forecast
    \/ cache' # cache
    \/ cache_file' # cache_file

\* the day key of the call that returns
ReturnedKey == last_forecast'.date \div 24

\* the call that returns obtained a forecast from the network
FoundForecast ==
    /\ last_forecast'.fetched
    /\ ~last_forecast'.ret.none

\* C25: get_forecast answers from the cache only while the entry of the day
\* is less than 6 hours old; an entry of 6 hours or more is not returned, and
\* the next fetch for that day that finds a forecast replaces it with an
\* entry stamped with the time of the fetch.
C25_CacheTimeBounded ==
    [][ForecastReturns =>
          /\ (~last_forecast'.fetched /\ ~last_forecast'.ret.none
                  /\ last_forecast'.ret # Unavailable) =>
                /\ ReturnedKey \in DOMAIN cache
                /\ datetime_now - cache[ReturnedKey].timestamp < 6
                /\ last_forecast'.ret = cache[ReturnedKey].data
          /\ (FoundForecast /\ ReturnedKey \in DOMAIN cache) =>
                /\ datetime_now - cache[ReturnedKey].timestamp >= 6
                /\ cache'[ReturnedKey] =
                       [timestamp |-> datetime_now, data |-> last_forecast'.ret]
       ]_vars

\* at 18:00 the entry of 2 January, stored at 12:00, is 6 hours old: the
\* call for that day asked the network, which had no forecast
C25_Witness ==
    /\ last_forecast.called
    /\ last_forecast.date \div 24 = 1
    /\ 1 \in DOMAIN cache
    /\ last_forecast.now - cache[1].timestamp = 6
    /\ last_forecast.fetched
    /\ last_forecast.ret = NoForecast

\* C30: a get_forecast call that obtains no forecast leaves the cache and
\* the cache file as they are; the cache changes only when a forecast was
\* found for the requested date, and then only the entry under that date's
\* key, which becomes the forecast returned.
C30_OnlyFoundForecastStored ==
    [][ForecastReturns =>
          /\ last_forecast'.ret \in {NoForecast, Unavailable} =>
                cache' = cache /\ cache_file' = cache_file
          /\ (cache' # cache \/ cache_file' # cache_file) =>
                /\ FoundForecast
                /\ DOMAIN cache' = DOMAIN cache \cup {ReturnedKey}
                /\ cache'[ReturnedKey].data = last_forecast'.ret
                /\ \A k \in DOMAIN cache : k # ReturnedKey => cache'[k] = cache[k]
       ]_vars

\* with a forecast of 8 January in the cache and in the file, the call for
\* 2 January got no forecast from the network
C30_Witness ==
    /\ last_forecast.called
    /\ last_forecast.date \div 24 = 1
    /\ last_forecast.fetched
    /\ last_forecast.ret = NoForecast
    /\ DOMAIN cache = {7}
    /\ cache_file.text = Dump(cache)

----------------------------------------------------------------------------
(* Properties of the preview *)

\* threads were started, every thread has returned and every callback has run
Quiescent ==
    /\ pthreads # <<>>
    /\ clock = <<>>
    /\ \A i \in DOMAIN pthreads : pthreads[i].pc = "done"

\* the thread of the most recent request
LatestThread == pthreads[Len(pthreads)]

\* C19: after several preview requests in a row, once every generation has
\* ended, the preview shown is the result of the most recent request (its
\* image, or its error text), never the result of an earlier request that
\* finished later.
C19_LatestPreviewShown ==
    Quiescent =>
        /\ preview.kind = LatestThread.result.kind
        /\ preview.kind = "image" => preview.req = LatestThread.req

\* the thread i of the sequence takes a step
ThreadStep(threads, i) == threads'[i] # threads[i]

\* the step schedules one callback, for the generation req
SchedulesOneFor(req) ==
    /\ Len(clock') = Len(clock) + 1
    /\ SubSeq(clock', 1, Len(clock)) = clock
    /\ clock'[Len(clock')].req = req

\* the step is one of the main thread: a request of the user, or the main
\* loop running the callback scheduled first
MainThreadStep ==
    \/ requests' = requests + 1
    \/ Len(gthreads') = Len(gthreads) + 1
    \/ clock # <<>> /\ clock' = Tail(clock)

----------------------------------------------------------------------------
(* Properties of the calendar list *)

\* the list as remove_calendar leaves it when it finds url: the other
\* entries, in their order
Without(calendars, url) ==
    SelectSeq(calendars, LAMBDA cal : cal.url # url)

\* one call of add_calendar or remove_calendar
ConfigCall(op) == config' # config /\ config'.last.op = op

\* C28: starting from an empty list, the configured list never holds two
\* entries with the same URL; add_calendar with an empty URL or a URL already
\* present returns False and leaves the list unchanged; remove_calendar removes
\* exactly the entry with the given URL, or returns False and changes nothing
\* when there is none
C28_CalendarUrlsUnique ==
    /\ [](\A i, k \in DOMAIN config.calendars :
             config.calendars[i].url = config.calendars[k].url => i = k)
    /\ [][LET url == config'.last.url
              present == url \in UrlsOf(config.calendars)
          IN  /\ ConfigCall("add_calendar") /\ (url = "" \/ present)
                   => /\ config'.ret = "False"
                      /\ config'.calendars = config.calendars
              /\ ConfigCall("remove_calendar") /\ present
                   => /\ config'.calendars = Without(config.calendars, url)
                      /\ Len(config'.calendars) = Len(config.calendars) - 1
              /\ ConfigCall("remove_calendar") /\ ~present
                   => /\ config'.ret = "False"
                      /\ config'.calendars = config.calendars]_vars

\* two calendars are configured and add_calendar has just refused the URL of
\* the first
C28_Witness ==
    /\ Len(config.calendars) = 2
    /\ config.last = [op |-> "add_calendar", url |-> config.calendars[1].url]
    /\ config.ret = "False"

----------------------------------------------------------------------------
(* Properties of the calendar screen *)

\* the months from January of year 0 to the month of a date
MonthIndex(d) == 12 * d.year + d.month - 1

\* C29: in the month view, previous_period and next_period never fail and
\* always move the shown date to the previous / next calendar month, for every
\* current date including the 29th, 30th and 31st and across a year boundary;
\* so next_period followed by previous_period returns to the original month
\* and year
C29_MonthNavigationNeverFails ==
    [][\A by \in {-1, 1} :
          /\ calendar_view' # calendar_view
          /\ calendar_view.current_view = "month"
          /\ calendar_view'.last =
                (IF by = 1 THEN "next_period" ELSE "previous_period")
          => /\ calendar_view'.raised = ""
             /\ MonthIndex(calendar_view'.month_view)
                    = MonthIndex(calendar_view.month_view) + by
             /\ calendar_view'.title = MonthTitle(calendar_view'.month_view)]_vars

====
